---------------------------- MODULE Spec2Model ----------------------------
(***************************************************************************)
(* A model of the VCD waveform viewer (src/vcd_viewer): the VCD parser,    *)
(* the trace data model, the time<->pixel mapping and the pointer-driven   *)
(* interaction of the canvas.                                              *)
(*                                                                         *)
(* Text is modelled as TLA+ strings, taken apart character by character    *)
(* with Len and SubSeq, so that strip/split/startswith/int behave as the   *)
(* Python built-ins the parser calls.  Floating-point values (time_scale,  *)
(* dragged timestamps) are modelled as exact rationals <<num, den>>.       *)
(***************************************************************************)
EXTENDS Integers, Sequences, FiniteSets, TLC

VARIABLES
    parser,     \* the VCDParser object: data, current_scope, current_timestamp
    frame,      \* the locals of _parse_lines: lines (unread part), i, in_header, line
    pc,         \* where parse_file stands: "idle", "parsing", "returned", "raised"
    exc,        \* the exception that escaped parse_file, or "none"
    ref,        \* what the text fed so far declares (kept by the writer of the file)
    call,       \* the last call of a pure function: its name, arguments and result
    viewer,     \* the WaveformViewer object: waveform_data, file_loaded
    canvas,     \* the WaveformCanvas object: waveform_data, time_scale, the drag state
    heap,       \* the objects referred to: the traces, the detached marker
    tk          \* the toolkit: the width of the canvas widget, the signal listbox

vars == <<parser, frame, pc, exc, ref, call, viewer, canvas, heap, tk>>

view == <<viewer, canvas, heap, tk>>

(***************************************************************************)
(* Bounds of the model.                                                    *)
(***************************************************************************)
MaxLines == 6       \* lines of a file
MaxDepth == 2       \* nesting depth of $scope in a well-formed file
MaxChanges == 3     \* change records of a signal drawn as a function input
MaxTime == 3        \* largest timestamp drawn as a function input

(***************************************************************************)
(* Python text built-ins.                                                  *)
(***************************************************************************)
CharAt(s, k) == SubSeq(s, k, k)

Chars(s) == {CharAt(s, k) : k \in 1..Len(s)}

Whitespace == Chars(" \t")

DigitChars == Chars("0123456789")

WordChars == Chars("abcdefghijklmnopqrstuvwxyzABCDEFGHIJKLMNOPQRSTUVWXYZ0123456789_")

\* s[k:] for a 0-based k
DropFirst(s, k) == SubSeq(s, k + 1, Len(s))

RECURSIVE LStrip(_)
LStrip(s) ==
    IF Len(s) > 0 /\ CharAt(s, 1) \in Whitespace THEN LStrip(DropFirst(s, 1)) ELSE s

RECURSIVE RStrip(_)
RStrip(s) ==
    IF Len(s) > 0 /\ CharAt(s, Len(s)) \in Whitespace
    THEN RStrip(SubSeq(s, 1, Len(s) - 1))
    ELSE s

\* str.strip()
Strip(s) == RStrip(LStrip(s))

\* str.startswith(p)
StartsWith(s, p) == Len(s) >= Len(p) /\ SubSeq(s, 1, Len(p)) = p

\* p in s
Contains(s, p) == \E k \in 1..(Len(s) - Len(p) + 1) : SubSeq(s, k, k + Len(p) - 1) = p

RECURSIVE SplitAcc(_, _, _, _)
SplitAcc(s, k, cur, acc) ==
    LET flushed == IF Len(cur) = 0 THEN acc ELSE Append(acc, cur) IN
    IF k > Len(s) THEN flushed
    ELSE IF CharAt(s, k) \in Whitespace THEN SplitAcc(s, k + 1, "", flushed)
    ELSE SplitAcc(s, k + 1, cur \o CharAt(s, k), acc)

\* str.split(): the maximal runs of non-whitespace characters
Split(s) == SplitAcc(s, 1, "", <<>>)

RECURSIVE Join(_, _)
\* sep.join(parts)
Join(parts, sep) ==
    IF Len(parts) = 0 THEN ""
    ELSE IF Len(parts) = 1 THEN parts[1]
    ELSE parts[1] \o sep \o Join(Tail(parts), sep)

DigitVal(c) == CHOOSE d \in 0..9 : CharAt("0123456789", d + 1) = c

RECURSIVE DigitsValue(_, _)
\* the value of the decimal digits of s, underscores skipped
DigitsValue(s, acc) ==
    IF Len(s) = 0 THEN acc
    ELSE IF CharAt(s, 1) = "_" THEN DigitsValue(DropFirst(s, 1), acc)
    ELSE DigitsValue(DropFirst(s, 1), 10 * acc + DigitVal(CharAt(s, 1)))

\* the digits of an int() literal: digits, single underscores only between digits
IsDigitString(s) ==
    /\ Len(s) > 0
    /\ \A k \in 1..Len(s) : CharAt(s, k) \in DigitChars \cup {"_"}
    /\ CharAt(s, 1) # "_"
    /\ CharAt(s, Len(s)) # "_"
    /\ ~Contains(s, "__")

\* int(s): [ok |-> FALSE] stands for ValueError
PyInt(s) ==
    LET t == Strip(s)
        signed == Len(t) > 0 /\ CharAt(t, 1) \in {"+", "-"}
        body == IF signed THEN DropFirst(t, 1) ELSE t
    IN  IF IsDigitString(body)
        THEN [ok |-> TRUE,
              val |-> IF signed /\ CharAt(t, 1) = "-"
                      THEN 0 - DigitsValue(body, 0)
                      ELSE DigitsValue(body, 0)]
        ELSE [ok |-> FALSE, val |-> 0]

RECURSIVE SpanEnd(_, _, _)
\* the last index e >= p - 1 with s[p..e] all in set cs
SpanEnd(s, p, cs) ==
    IF p <= Len(s) /\ CharAt(s, p) \in cs THEN SpanEnd(s, p + 1, cs) ELSE p - 1

\* the match of (\d+\s*\w+) starting at index p, as its last index, or 0
TimescaleMatchAt(s, p) ==
    LET d == SpanEnd(s, p, DigitChars)
        w == SpanEnd(s, d + 1, Whitespace)
        v == SpanEnd(s, w + 1, WordChars)
    IN  IF d < p THEN 0
        ELSE IF v > w THEN v
        ELSE IF d > p THEN d
        ELSE 0

\* re.search(r"(\d+\s*\w+)", s): the leftmost match's group(1), or no match
TimescaleSearch(s) ==
    LET starts == {p \in 1..Len(s) : TimescaleMatchAt(s, p) > 0} IN
    IF starts = {} THEN [ok |-> FALSE, text |-> ""]
    ELSE LET p == CHOOSE q \in starts : \A r \in starts : q <= r
         IN  [ok |-> TRUE, text |-> SubSeq(s, p, TimescaleMatchAt(s, p))]

(***************************************************************************)
(* Numbers of the view.  A time or a scale (a Python int or float) is the  *)
(* exact rational <<numerator, denominator>>, in lowest terms with a       *)
(* positive denominator.  The timestamps the parser stores are integers.   *)
(***************************************************************************)
Abs(n) == IF n < 0 THEN -n ELSE n

\* the greatest common divisor of two naturals, by Euclid's algorithm
Gcd(a, b) ==
    LET euclid[x \in Nat, y \in Nat] == IF y = 0 THEN x ELSE euclid[y, x % y]
    IN  euclid[a, b]

\* n / d, d # 0
Rat(n, d) ==
    LET g == Gcd(Abs(n), Abs(d))
        s == IF d < 0 THEN -1 ELSE 1
    IN  <<(s * n) \div g, (s * d) \div g>>

\* the integer n as a number of the view
Q(n) == <<n, 1>>

RatAdd(a, b) == Rat(a[1] * b[2] + b[1] * a[2], a[2] * b[2])

RatSub(a, b) == Rat(a[1] * b[2] - b[1] * a[2], a[2] * b[2])

RatMul(a, b) == Rat(a[1] * b[1], a[2] * b[2])

\* a / b, b # 0
RatDiv(a, b) == Rat(a[1] * b[2], a[2] * b[1])

RatLt(a, b) == a[1] * b[2] < b[1] * a[2]

RatLe(a, b) == a[1] * b[2] <= b[1] * a[2]

RatAbs(a) == <<Abs(a[1]), a[2]>>

\* int(a): truncation toward zero
Trunc(a) == IF a[1] >= 0 THEN a[1] \div a[2] ELSE -((-a[1]) \div a[2])

\* min(a, b) and max(a, b): of two equal arguments the first
PyMin(a, b) == IF RatLt(b, a) THEN b ELSE a

PyMax(a, b) == IF RatLt(a, b) THEN b ELSE a

\* an optional value: None, or the value
Nothing == <<>>

Some(v) == <<v>>

\* sorted(seq, key=...) and list.sort(key=...): the stable ascending sort;
\* lt[i, j] says that the key of seq[i] is below the key of seq[j]
StableSort(seq, lt) ==
    LET n == Len(seq)
        before(i) == {j \in 1..n : lt[j, i] \/ (j < i /\ ~lt[i, j])}
    IN  [p \in 1..n |-> seq[CHOOSE i \in 1..n : Cardinality(before(i)) = p - 1]]

\* sorted(set) of a set of integers
SortedSet(S) ==
    [p \in 1..Cardinality(S) |-> CHOOSE e \in S : Cardinality({f \in S : f < e}) = p - 1]

\* the characters of the names of the model in code point order, for the
\* comparison of str
Ascii == " !\"#$.0123456789ABCDEFGHIJKLMNOPQRSTUVWXYZ_abcdefghijklmnopqrstuvwxyz"

Ord(c) == CHOOSE k \in 1..Len(Ascii) : CharAt(Ascii, k) = c

\* a < b on str: the order of the first characters that differ, a proper
\* prefix before the longer string
StrLt(a, b) ==
    LET n == IF Len(a) < Len(b) THEN Len(a) ELSE Len(b)
        differ == {k \in 1..n : CharAt(a, k) # CharAt(b, k)}
    IN  IF differ = {} THEN Len(a) < Len(b)
        ELSE \E k \in differ :
                 /\ \A j \in differ : k <= j
                 /\ Ord(CharAt(a, k)) < Ord(CharAt(b, k))

(***************************************************************************)
(* models.py: Signal, Marker, Cursor, WaveformData.  A Signal's changes    *)
(* and a trace's markers are held by value; a Marker carries its identity. *)
(***************************************************************************)
None == "None"

\* Signal(identifier, name, width, scope)
Signal(identifier, name, width, scope) ==
    [identifier |-> identifier, name |-> name, width |-> width, scope |-> scope,
     changes |-> <<>>, visible |-> TRUE]

\* add_change putting the record in front of the list
AddChangeFront(signal, timestamp, value) ==
    [signal EXCEPT !.changes = <<<<timestamp, value>>>> \o @]

\* Signal.add_change
AddChange(signal, timestamp, value) ==
    [signal EXCEPT !.changes = Append(@, <<timestamp, value>>)]

\* Signal.get_full_name
GetFullName(signal) ==
    IF Len(signal.scope) > 0 THEN signal.scope \o "." \o signal.name ELSE signal.name

\* Cursor(timestamp)
Cursor(timestamp) == [timestamp |-> timestamp, visible |-> TRUE, dragging |-> FALSE]

\* WaveformData(): signals is the dict identifier -> Signal, as the sequence of
\* its values in insertion order
WaveformData ==
    [timescale |-> "1ns", signals |-> <<>>, markers |-> <<>>, max_timestamp |-> 0,
     cursor |-> Cursor(Q(0)), time_base |-> "auto", display_order |-> <<>>]

\* the position of identifier's Signal in data.signals, or 0 (dict.get -> None)
GetSignalByIdentifier(data, identifier) ==
    LET hits == {k \in 1..Len(data.signals) : data.signals[k].identifier = identifier}
    IN  IF hits = {} THEN 0 ELSE CHOOSE k \in hits : TRUE

\* WaveformData.add_signal: a known identifier keeps its place in the dict
AddSignal(data, signal) ==
    LET k == GetSignalByIdentifier(data, signal.identifier) IN
    IF k = 0 THEN [data EXCEPT !.signals = Append(@, signal)]
    ELSE [data EXCEPT !.signals[k] = signal]

UpdateMaxTimestampUnconditional(data, timestamp) ==
    [data EXCEPT !.max_timestamp = timestamp]

\* WaveformData.update_max_timestamp
UpdateMaxTimestamp(data, timestamp) ==
    IF timestamp > data.max_timestamp
    THEN [data EXCEPT !.max_timestamp = timestamp]
    ELSE data

\* get_value_at with the comparison of its loop turned round
ScanChangesFlipped(changes, timestamp) ==
    LET stops == {k \in 1..Len(changes) : changes[k][1] < timestamp} IN
    IF stops = {} THEN Len(changes)
    ELSE (CHOOSE k \in stops : \A j \in stops : k <= j) - 1

\* the loop of Signal.get_value_at: it passes the records with ts <= timestamp
\* and breaks at the first with ts > timestamp; the position of the last
\* record passed, 0 if none
ScanChanges(changes, timestamp) ==
    LET stops == {k \in 1..Len(changes) : changes[k][1] > timestamp} IN
    IF stops = {} THEN Len(changes)
    ELSE (CHOOSE k \in stops : \A j \in stops : k <= j) - 1

\* Signal.get_value_at: the value it returns, with the position of its record
GetValueAt(signal, timestamp) ==
    LET k == ScanChanges(signal.changes, timestamp) IN
    [index |-> k, value |-> IF k = 0 THEN None ELSE signal.changes[k][2]]

\* Signal.get_edges
GetEdges(signal) == [k \in 1..Len(signal.changes) |-> signal.changes[k][1]]

\* Marker(timestamp, label, color); oid is the identity of the object
Marker(oid, timestamp, label, color) ==
    [oid |-> oid, timestamp |-> timestamp, label |-> label, color |-> color,
     selected |-> FALSE, dragging |-> FALSE]

\* (a.scope, a.name) < (b.scope, b.name)
SignalKeyLt(a, b) ==
    \/ StrLt(a.scope, b.scope)
    \/ a.scope = b.scope /\ StrLt(a.name, b.name)

\* WaveformData.get_all_signals
GetAllSignals(data) ==
    LET signals == data.signals IN
    StableSort(signals, [i \in 1..Len(signals), j \in 1..Len(signals) |->
                            SignalKeyLt(signals[i], signals[j])])

\* WaveformData.get_signal_by_name: the position in data.signals, or 0
GetSignalByName(data, full_name) ==
    LET hits == {k \in 1..Len(data.signals) : GetFullName(data.signals[k]) = full_name}
    IN  IF hits = {} THEN 0 ELSE CHOOSE k \in hits : \A h \in hits : k <= h

\* WaveformData.get_signals_in_display_order; signal_dict keeps, of the
\* signals with one full name, the last of the dict
GetSignalsInDisplayOrder(data) ==
    IF Len(data.display_order) = 0 THEN GetAllSignals(data)
    ELSE LET live(name) == \E k \in 1..Len(data.signals) :
                               GetFullName(data.signals[k]) = name
             signal_dict(name) ==
                 data.signals[CHOOSE k \in 1..Len(data.signals) :
                     /\ GetFullName(data.signals[k]) = name
                     /\ \A j \in (k + 1)..Len(data.signals) :
                           GetFullName(data.signals[j]) # name]
             named == SelectSeq(data.display_order, live)
             ordered_names == {data.display_order[i] : i \in 1..Len(data.display_order)}
             absent(signal) == GetFullName(signal) \notin ordered_names
         IN  [i \in 1..Len(named) |-> signal_dict(named[i])]
                 \o SelectSeq(GetAllSignals(data), absent)

\* WaveformData.add_marker without the sort
AddMarkerUnsorted(data, marker) ==
    [data EXCEPT !.markers = Append(@, marker)]

\* markers.sort(key=lambda m: m.timestamp)
SortMarkers(markers) ==
    StableSort(markers, [i \in 1..Len(markers), j \in 1..Len(markers) |->
                            RatLt(markers[i].timestamp, markers[j].timestamp)])

\* WaveformData.add_marker
AddMarker(data, marker) ==
    [data EXCEPT !.markers = SortMarkers(Append(@, marker))]

\* WaveformData.remove_marker
RemoveMarker(data, marker) ==
    LET hits == {k \in 1..Len(data.markers) : data.markers[k].oid = marker.oid} IN
    IF hits = {} THEN data
    ELSE LET k == CHOOSE h \in hits : \A j \in hits : h <= j
         IN  [data EXCEPT !.markers = SubSeq(@, 1, k - 1) \o SubSeq(@, k + 1, Len(@))]

\* WaveformData.get_selected_markers
GetSelectedMarkers(data) ==
    LET selected(m) == m.selected IN SelectSeq(data.markers, selected)

\* get_all_edges taking the hidden signals as well
GetAllEdgesOfAll(data) ==
    SortedSet(UNION {{GetEdges(data.signals[k])[c] : c \in 1..Len(data.signals[k].changes)} :
                        k \in 1..Len(data.signals)})

\* WaveformData.get_all_edges
GetAllEdges(data) ==
    SortedSet(UNION {{GetEdges(data.signals[k])[c] : c \in 1..Len(data.signals[k].changes)} :
                        k \in {j \in 1..Len(data.signals) : data.signals[j].visible}})


(***************************************************************************)
(* parser.py: VCDParser.  Each method takes the parser object and the      *)
(* unread lines (lines[index:]) and returns the parser object, the number  *)
(* of lines the index advances by and the exception it raised.             *)
(***************************************************************************)
\* VCDParser.__init__, and the reset at the top of parse_file
Parser == [data |-> WaveformData, current_scope |-> <<>>, current_timestamp |-> 0]

Outcome(p, consumed, raised) == [parser |-> p, consumed |-> consumed, exc |-> raised]

\* _skip_to_end giving back the index it was given when no line holds "$end"
SkipToEndStay(lines) ==
    LET hits == {k \in 1..Len(lines) : Contains(lines[k], "$end")} IN
    IF hits = {} THEN 0 ELSE CHOOSE k \in hits : \A h \in hits : k <= h

\* VCDParser._skip_to_end: up to and including the first line holding "$end",
\* or every line left
SkipToEnd(lines) ==
    LET hits == {k \in 1..Len(lines) : Contains(lines[k], "$end")} IN
    IF hits = {} THEN Len(lines) ELSE CHOOSE k \in hits : \A h \in hits : k <= h

\* VCDParser._parse_timescale
ParseTimescale(p, lines) ==
    LET m == TimescaleSearch(Strip(lines[1]))
        n == IF Len(lines) >= 2 THEN TimescaleSearch(Strip(lines[2]))
             ELSE [ok |-> FALSE, text |-> ""]
        q == IF m.ok THEN [p EXCEPT !.data.timescale = Strip(m.text)]
             ELSE IF n.ok THEN [p EXCEPT !.data.timescale = Strip(n.text)]
             ELSE p
    IN  Outcome(q, SkipToEnd(lines), "none")

\* _parse_scope forgetting the enclosing scopes
ParseScopeFlat(p, lines) ==
    LET parts == Split(Strip(lines[1])) IN
    Outcome(IF Len(parts) >= 3 THEN [p EXCEPT !.current_scope = <<parts[3]>>] ELSE p,
            1, "none")

\* VCDParser._parse_scope
ParseScope(p, lines) ==
    LET parts == Split(Strip(lines[1])) IN
    Outcome(IF Len(parts) >= 3
            THEN [p EXCEPT !.current_scope = Append(@, parts[3])]
            ELSE p,
            1, "none")

\* VCDParser._pop_scope
PopScope(p) ==
    IF Len(p.current_scope) > 0
    THEN [p EXCEPT !.current_scope = SubSeq(@, 1, Len(@) - 1)]
    ELSE p

\* VCDParser._parse_var: int(parts[2]) raises ValueError, which nothing catches
ParseVar(p, lines) ==
    LET parts == Split(Strip(lines[1])) IN
    IF Len(parts) >= 5
    THEN LET width == PyInt(parts[3]) IN
         IF width.ok
         THEN LET scope == Join(p.current_scope, ".")
                  signal == Signal(parts[4], parts[5], width.val, scope)
              IN  Outcome([p EXCEPT !.data = AddSignal(@, signal)],
                          SkipToEnd(lines), "none")
         ELSE Outcome(p, 0, "ValueError")
    ELSE Outcome(p, SkipToEnd(lines), "none")

\* _parse_timestamp going back to time 0 at a ValueError of int()
ParseTimestampReset(p, lines) ==
    LET t == PyInt(DropFirst(Strip(lines[1]), 1)) IN
    Outcome(IF t.ok
            THEN [p EXCEPT !.current_timestamp = t.val,
                           !.data = UpdateMaxTimestamp(@, t.val)]
            ELSE [p EXCEPT !.current_timestamp = 0],
            1, "none")

\* VCDParser._parse_timestamp: a ValueError of int() is caught and passed over
ParseTimestamp(p, lines) ==
    LET t == PyInt(DropFirst(Strip(lines[1]), 1)) IN
    Outcome(IF t.ok
            THEN [p EXCEPT !.current_timestamp = t.val,
                           !.data = UpdateMaxTimestamp(@, t.val)]
            ELSE p,
            1, "none")

\* _parse_value_change adding a signal for an identifier it does not know
RecordChangeDeclare(p, identifier, value) ==
    LET k == GetSignalByIdentifier(p.data, identifier) IN
    IF k = 0 THEN [p EXCEPT !.data = AddSignal(@, Signal(identifier, identifier, 1, ""))]
    ELSE [p EXCEPT !.data.signals[k] = AddChange(@, p.current_timestamp, value)]

\* the tail of the three branches of _parse_value_change
RecordChange(p, identifier, value) ==
    LET k == GetSignalByIdentifier(p.data, identifier) IN
    IF k = 0 THEN p
    ELSE [p EXCEPT !.data.signals[k] = AddChange(@, p.current_timestamp, value)]

\* VCDParser._parse_value_change
ParseValueChange(p, text) ==
    LET line == Strip(text)
        parts == Split(line)
    IN  IF Len(line) = 0 THEN p
        ELSE IF CharAt(line, 1) \in Chars("01xzXZ")
        THEN IF Len(line) > 1
             THEN RecordChange(p, DropFirst(line, 1), CharAt(line, 1))
             ELSE p
        ELSE IF StartsWith(line, "b") \/ StartsWith(line, "B")
        THEN IF Len(parts) >= 2
             THEN RecordChange(p, parts[2], DropFirst(parts[1], 1))
             ELSE p
        ELSE IF StartsWith(line, "r") \/ StartsWith(line, "R")
        THEN IF Len(parts) >= 2
             THEN RecordChange(p, parts[2], DropFirst(parts[1], 1))
             ELSE p
        ELSE p

\* the locals of _parse_lines at its first iteration
Frame(lines, eof) ==
    [lines |-> lines, i |-> 0, eof |-> eof, in_header |-> TRUE, line |-> ""]

\* one iteration of the while loop of VCDParser._parse_lines
ParseLine(p, f) ==
    LET line == Strip(f.lines[1])
        r == IF Len(line) = 0 THEN Outcome(p, 1, "none")
             ELSE IF StartsWith(line, "$")
             THEN IF StartsWith(line, "$timescale") THEN ParseTimescale(p, f.lines)
                  ELSE IF StartsWith(line, "$scope") THEN ParseScope(p, f.lines)
                  ELSE IF StartsWith(line, "$upscope") THEN Outcome(PopScope(p), 1, "none")
                  ELSE IF StartsWith(line, "$var") THEN ParseVar(p, f.lines)
                  ELSE IF StartsWith(line, "$enddefinitions") THEN Outcome(p, 1, "none")
                  ELSE Outcome(p, SkipToEnd(f.lines), "none")
             ELSE IF StartsWith(line, "#") THEN ParseTimestamp(p, f.lines)
             ELSE IF ~f.in_header THEN Outcome(ParseValueChange(p, line), 1, "none")
             ELSE Outcome(p, 1, "none")
    IN  [parser |-> r.parser,
         frame |-> [f EXCEPT !.lines = SubSeq(@, r.consumed + 1, Len(@)),
                             !.i = @ + r.consumed,
                             !.in_header = @ /\ ~StartsWith(line, "$enddefinitions"),
                             !.line = line],
         exc |-> r.exc]

(***************************************************************************)
(* canvas.py, viewer.py: the objects of the view.  heap.traces holds the   *)
(* WaveformData objects the viewer and the canvas refer to, each by its    *)
(* position; heap.detached holds the Marker the canvas still refers to     *)
(* once it has left the marker lists.  tk is what the code reads from the  *)
(* toolkit: the width of the canvas widget (1 until the window is drawn)   *)
(* and the names shown in the signal listbox.                              *)
(***************************************************************************)
\* self.left_margin
LeftMargin == 200

\* WaveformCanvas.__init__
WaveformCanvas(waveform_data) ==
    [waveform_data |-> waveform_data, time_scale |-> Q(1), left_margin |-> LeftMargin,
     drag_start_x |-> Nothing, drag_start_y |-> Nothing, is_dragging |-> FALSE,
     dragged_object |-> None, dragged_marker |-> Nothing, alt_pressed |-> FALSE]

\* WaveformViewer.__init__
WaveformViewer == [waveform_data |-> 1, file_loaded |-> FALSE]

Heap == [traces |-> <<WaveformData>>, detached |-> <<>>]

Tk == [width |-> 1, listbox |-> <<>>]

\* _x_to_time forgetting the label gutter
XToTimeNoMargin(c, x) == RatDiv(Q(x), c.time_scale)

\* WaveformCanvas._time_to_x
TimeToX(c, time) == c.left_margin + Trunc(RatMul(time, c.time_scale))

\* WaveformCanvas._x_to_time, time_scale # 0
XToTime(c, x) == RatDiv(Q(x - c.left_margin), c.time_scale)

\* the viewer as constructed, before any file is loaded
InitView ==
    /\ viewer = WaveformViewer
    /\ canvas = WaveformCanvas(1)
    /\ heap = Heap
    /\ tk = Tk

(***************************************************************************)
(* The file is unfolded as the parser reads forward: an iteration of the   *)
(* loop draws the unread lines it looks at (the line at i; the next line   *)
(* for $timescale; the lines up to "$end" for _skip_to_end) or meets the   *)
(* end of the file.  A behaviour fixes one file: the lines drawn, in       *)
(* order.  frame.lines holds the lines drawn and not yet passed by i.      *)
(***************************************************************************)
HasEnd(lines) == \E k \in 1..Len(lines) : Contains(lines[k], "$end")

\* the lines drawn are all that the iteration at lines[1] looks at
Unfolded(lines) ==
    /\ Len(lines) >= 1
    /\ LET line == Strip(lines[1]) IN
       IF StartsWith(line, "$timescale")
       THEN (TimescaleSearch(line).ok \/ Len(lines) >= 2) /\ HasEnd(lines)
       ELSE IF StartsWith(line, "$scope") \/ StartsWith(line, "$upscope")
       THEN TRUE
       ELSE IF StartsWith(line, "$var") THEN HasEnd(lines)
       ELSE IF StartsWith(line, "$enddefinitions") THEN TRUE
       ELSE IF StartsWith(line, "$") THEN HasEnd(lines)
       ELSE TRUE

RECURSIVE Unfoldings(_, _, _)
\* the ways the file goes on from the lines drawn: up to n more lines, as far
\* as the next iteration looks, or the end of the file.  The first line is
\* any line of vocabulary[1], a line after it any line of vocabulary[2]
Unfoldings(lines, n, vocabulary) ==
    IF Unfolded(lines) THEN {[lines |-> lines, eof |-> FALSE]}
    ELSE {[lines |-> lines, eof |-> TRUE]}
         \cup (IF n > 0
               THEN UNION {Unfoldings(Append(lines, l), n - 1, vocabulary) :
                             l \in IF Len(lines) = 0 THEN vocabulary[1]
                                   ELSE vocabulary[2]}
               ELSE {})

\* the unread part of the file, as far as the next iteration looks
Ahead(f, vocabulary) ==
    IF f.eof THEN {[lines |-> f.lines, eof |-> TRUE]}
    ELSE Unfoldings(f.lines, MaxLines - f.i - Len(f.lines), vocabulary)

\* the lines a file may hold
Vocabulary ==
    {"$var wire 1 ! clk $end", "$var wire x ! clk $end", "$enddefinitions $end",
     "$scope module top $end", "$upscope $end", "$dumpvars",
     "#5", "#3", "#-2", "#x", "0!", "1!", "b10 !", "0?", "b10 ?", "r1 ?", ""}

\* the lines a directive that is not closed on its own line may go on with
Continuation == {"0!", "$end"}

Idle == [fn |-> "none"]

NoRef == [on |-> FALSE]

\* parse_file on an existing file: the reset and the entry into _parse_lines
ParseFile ==
    /\ pc \in {"idle", "returned", "raised"}
    /\ parser' = Parser
    /\ frame' = Frame(<<>>, FALSE)
    /\ pc' = "parsing"
    /\ exc' = "none"
    /\ UNCHANGED <<ref, call>>
    /\ UNCHANGED view

\* parse_file on a missing file: open() raises after the reset
ParseFileMissing ==
    /\ pc \in {"idle", "returned", "raised"}
    /\ parser' = Parser
    /\ pc' = "raised"
    /\ exc' = "FileNotFoundError"
    /\ UNCHANGED <<frame, ref, call>>
    /\ UNCHANGED view

\* one iteration of the loop of _parse_lines on the unread lines u; an
\* exception leaves parse_file
Iterate(u) ==
    LET r == ParseLine(parser, [frame EXCEPT !.lines = u.lines, !.eof = u.eof]) IN
    /\ parser' = r.parser
    /\ frame' = r.frame
    /\ exc' = r.exc
    /\ pc' = IF r.exc = "none" THEN "parsing" ELSE "raised"

\* i = len(lines): the loop ends and parse_file returns self.data
Return ==
    /\ frame' = [frame EXCEPT !.eof = TRUE]
    /\ pc' = "returned"
    /\ UNCHANGED <<parser, exc>>

ParseLineStep ==
    /\ pc = "parsing"
    /\ \E u \in Ahead(frame, <<Vocabulary, Continuation>>) : Len(u.lines) > 0 /\ Iterate(u)
    /\ UNCHANGED <<ref, call>>
    /\ UNCHANGED view

ParseReturn ==
    /\ pc = "parsing"
    /\ \E u \in Ahead(frame, <<Vocabulary, Continuation>>) : Len(u.lines) = 0 /\ Return
    /\ UNCHANGED <<ref, call>>
    /\ UNCHANGED view

InitParse ==
    /\ parser = Parser
    /\ frame = Frame(<<>>, FALSE)
    /\ pc = "idle"
    /\ exc = "none"
    /\ ref = NoRef
    /\ call = Idle
    /\ InitView

NextParse ==
    \/ ParseFile
    \/ ParseFileMissing
    \/ ParseLineStep
    \/ ParseReturn

\* the parser on any file of at most MaxLines lines of Vocabulary
SpecParse == InitParse /\ [][NextParse]_vars


(***************************************************************************)
(* Well-formed files.  The writer of the file keeps in ref what its lines  *)
(* declare: the timescale, the open scopes, the variables with their       *)
(* value changes, the time of the last #t and the largest one.  Each       *)
(* directive is one line closed by $end.                                   *)
(***************************************************************************)
MaxLinesWF == 9     \* lines of a well-formed file

Timescales == {"1ns", "10 ps"}

ScopeNames == {"top", "u1"}

\* the $var declarations a well-formed file may hold
Variables ==
    {[type |-> "wire", width |-> 1, identifier |-> "!", name |-> "clk"],
     [type |-> "reg", width |-> 4, identifier |-> "\"", name |-> "data"]}

Times == {0, 5, 3}

ScalarValues == {"0", "1", "x"}

VectorValues == {"0000", "1010"}

RECURSIVE Decimal(_)
\* the decimal numeral of n >= 0
Decimal(n) ==
    IF n < 10 THEN CharAt("0123456789", n + 1)
    ELSE Decimal(n \div 10) \o CharAt("0123456789", (n % 10) + 1)

\* the text of a line of a well-formed file
Render(item) ==
    CASE item.kind = "timescale" -> "$timescale " \o item.text \o " $end"
      [] item.kind = "scope" -> "$scope module " \o item.name \o " $end"
      [] item.kind = "upscope" -> "$upscope $end"
      [] item.kind = "var" ->
            "$var " \o item.var.type \o " " \o Decimal(item.var.width) \o " "
                \o item.var.identifier \o " " \o item.var.name \o " $end"
      [] item.kind = "enddefinitions" -> "$enddefinitions $end"
      [] item.kind = "time" -> "#" \o Decimal(item.t)
      [] item.kind = "scalar" -> item.value \o item.identifier
      [] item.kind = "vector" -> "b" \o item.value \o " " \o item.identifier

NewRef ==
    [on |-> TRUE, phase |-> "timescale", timescale |-> "", scopes |-> <<>>,
     signals |-> <<>>, t |-> 0, max_t |-> 0]

Declared(r, identifier) ==
    \E k \in 1..Len(r.signals) : r.signals[k].var.identifier = identifier

\* the lines that may come next in a well-formed file
WellFormedNext(r) ==
    CASE r.phase = "timescale" -> {[kind |-> "timescale", text |-> t] : t \in Timescales}
      [] r.phase = "header" ->
            (IF Len(r.scopes) < MaxDepth
             THEN {[kind |-> "scope", name |-> n] : n \in ScopeNames}
             ELSE {})
            \cup (IF Len(r.scopes) > 0 THEN {[kind |-> "upscope"]} ELSE {})
            \cup {[kind |-> "var", var |-> v] :
                    v \in {w \in Variables : ~Declared(r, w.identifier)}}
            \cup (IF Len(r.scopes) = 0 THEN {[kind |-> "enddefinitions"]} ELSE {})
      [] r.phase = "body" ->
            {[kind |-> "time", t |-> t] : t \in Times}
      [] r.phase = "changes" ->
            {[kind |-> "time", t |-> t] : t \in Times}
            \cup {[kind |-> "scalar", value |-> v, identifier |-> r.signals[k].var.identifier] :
                    v \in ScalarValues,
                    k \in {j \in 1..Len(r.signals) : r.signals[j].var.width = 1}}
            \cup {[kind |-> "vector", value |-> v, identifier |-> r.signals[k].var.identifier] :
                    v \in VectorValues,
                    k \in {j \in 1..Len(r.signals) : r.signals[j].var.width > 1}}

\* what the file declares once the line is written
Declare(r, item) ==
    CASE item.kind = "timescale" -> [r EXCEPT !.timescale = item.text, !.phase = "header"]
      [] item.kind = "scope" -> [r EXCEPT !.scopes = Append(@, item.name)]
      [] item.kind = "upscope" -> [r EXCEPT !.scopes = SubSeq(@, 1, Len(@) - 1)]
      [] item.kind = "var" ->
            [r EXCEPT !.signals =
                Append(@, [var |-> item.var, scopes |-> r.scopes, changes |-> <<>>])]
      [] item.kind = "enddefinitions" -> [r EXCEPT !.phase = "body"]
      [] item.kind = "time" ->
            [r EXCEPT !.t = item.t, !.phase = "changes",
                      !.max_t = IF item.t > @ THEN item.t ELSE @]
      [] item.kind \in {"scalar", "vector"} ->
            [r EXCEPT !.signals =
                [k \in 1..Len(@) |->
                    IF @[k].var.identifier = item.identifier
                    THEN [@[k] EXCEPT !.changes = Append(@, <<r.t, item.value>>)]
                    ELSE @[k]]]

\* parse_file on a well-formed file
ParseWellFormed ==
    /\ pc \in {"idle", "returned", "raised"}
    /\ parser' = Parser
    /\ frame' = Frame(<<>>, FALSE)
    /\ pc' = "parsing"
    /\ exc' = "none"
    /\ ref' = NewRef
    /\ UNCHANGED call
    /\ UNCHANGED view

\* one iteration of the loop of _parse_lines on the next line of the file
WellFormedLineStep ==
    /\ pc = "parsing"
    /\ ~frame.eof
    /\ frame.i < MaxLinesWF
    /\ \E item \in WellFormedNext(ref) :
          /\ Iterate([lines |-> <<Render(item)>>, eof |-> FALSE])
          /\ ref' = Declare(ref, item)
    /\ UNCHANGED call
    /\ UNCHANGED view

\* the file ends after its header: the loop ends and parse_file returns
WellFormedReturn ==
    /\ pc = "parsing"
    /\ ref.phase \in {"body", "changes"}
    /\ Return
    /\ UNCHANGED <<ref, call>>
    /\ UNCHANGED view

NextWellFormed ==
    \/ ParseWellFormed
    \/ WellFormedLineStep
    \/ WellFormedReturn

\* the parser on the well-formed files of at most MaxLinesWF lines
SpecWellFormed == InitParse /\ [][NextWellFormed]_vars

(***************************************************************************)
(* Signal.get_value_at on a signal of a parsed trace.  The parser appends  *)
(* each change at the current timestamp, and a "#" line may set that to    *)
(* any integer, so the changes of a signal are any list of records.        *)
(***************************************************************************)
ChangeValues == {"0", "1"}

ChangeLists == UNION {[1..n -> (0..MaxTime) \X ChangeValues] : n \in 0..MaxChanges}

InitValueAt ==
    /\ parser = Parser
    /\ frame = Frame(<<>>, FALSE)
    /\ pc = "idle"
    /\ exc = "none"
    /\ ref = NoRef
    /\ call = Idle
    /\ viewer = WaveformViewer
    /\ canvas = WaveformCanvas(1)
    /\ tk = Tk
    /\ \E changes \in ChangeLists :
          heap = [Heap EXCEPT !.traces[1].signals =
                     <<[Signal("!", "clk", 1, "top") EXCEPT !.changes = changes]>>]

\* signal.get_value_at(t); call keeps the call before it as well
GetValueAtCall ==
    /\ \E t \in (-1)..(MaxTime + 1) :
          LET r == GetValueAt(heap.traces[1].signals[1], t) IN
          call' = [fn |-> "get_value_at", timestamp |-> t, index |-> r.index,
                   value |-> r.value,
                   earlier |-> IF call.fn = "get_value_at"
                               THEN Some([timestamp |-> call.timestamp, index |-> call.index])
                               ELSE Nothing]
    /\ UNCHANGED <<parser, frame, pc, exc, ref, viewer, canvas, heap, tk>>

SpecValueAt == InitValueAt /\ [][GetValueAtCall]_vars

(***************************************************************************)
(* WaveformData.get_signals_in_display_order on a trace of at most         *)
(* MaxSignals signals (the dict is keyed by identifier, so two signals may *)
(* have one scope and name) and a display_order of at most MaxOrder names. *)
(***************************************************************************)
MaxSignals == 3     \* signals of a trace
MaxOrder == 2       \* entries of display_order

Identifiers == <<"!", "\"", "#">>

SignalKeys == {<<"top", "clk">>, <<"top", "data">>, <<"", "clk">>}

OrderNames == {"top.clk", "top.data", "clk", "top.rst"}

InitDisplayOrder ==
    /\ parser = Parser
    /\ frame = Frame(<<>>, FALSE)
    /\ pc = "idle"
    /\ exc = "none"
    /\ ref = NoRef
    /\ call = Idle
    /\ viewer = WaveformViewer
    /\ canvas = WaveformCanvas(1)
    /\ tk = Tk
    /\ \E n \in 0..MaxSignals, o \in 0..MaxOrder :
          \E keys \in [1..n -> SignalKeys], order \in [1..o -> OrderNames] :
              heap = [Heap EXCEPT
                         !.traces[1].signals =
                             [k \in 1..n |-> Signal(Identifiers[k], keys[k][2], 1, keys[k][1])],
                         !.traces[1].display_order = order]

\* data.get_signals_in_display_order()
GetSignalsInDisplayOrderCall ==
    /\ call' = [fn |-> "get_signals_in_display_order",
                result |-> GetSignalsInDisplayOrder(heap.traces[1])]
    /\ UNCHANGED <<parser, frame, pc, exc, ref, viewer, canvas, heap, tk>>

SpecDisplayOrder == InitDisplayOrder /\ [][GetSignalsInDisplayOrderCall]_vars

(***************************************************************************)
(* The time<->pixel mapping of the canvas under a scale > 0, on the times  *)
(* n/d of [0, max_timestamp] with d <= MaxDen.                             *)
(***************************************************************************)
MaxDen == 3         \* largest denominator of a time drawn as an input

Scales == {Rat(1, 1), Rat(140, 1), Rat(3, 2), Rat(2, 3), Rat(7, 3), Rat(1, 10)}

TimesUpTo(m) == {Rat(n, d) : n \in 0..(m * MaxDen), d \in 1..MaxDen}

InitRoundTrip ==
    /\ parser = Parser
    /\ frame = Frame(<<>>, FALSE)
    /\ pc = "idle"
    /\ exc = "none"
    /\ ref = NoRef
    /\ call = Idle
    /\ viewer = WaveformViewer
    /\ tk = Tk
    /\ \E scale \in Scales : canvas = [WaveformCanvas(1) EXCEPT !.time_scale = scale]
    /\ \E m \in 0..MaxTime : heap = [Heap EXCEPT !.traces[1].max_timestamp = m]

\* canvas._time_to_x(t), 0 <= t <= max_timestamp
TimeToXCall ==
    /\ \E t \in TimesUpTo(heap.traces[1].max_timestamp) :
          /\ RatLe(t, Q(heap.traces[1].max_timestamp))
          /\ call' = [fn |-> "_time_to_x", time |-> t, result |-> TimeToX(canvas, t)]
    /\ UNCHANGED <<parser, frame, pc, exc, ref, viewer, canvas, heap, tk>>

\* canvas._x_to_time(x) of the pixel the call before returned for the time of
\* (time_scale > 0 here)
XToTimeCall ==
    /\ call.fn = "_time_to_x"
    /\ call' = [fn |-> "_x_to_time", x |-> call.result, of |-> call.time,
                result |-> XToTime(canvas, call.result)]
    /\ UNCHANGED <<parser, frame, pc, exc, ref, viewer, canvas, heap, tk>>

NextRoundTrip ==
    \/ TimeToXCall
    \/ XToTimeCall

SpecRoundTrip == InitRoundTrip /\ [][NextRoundTrip]_vars

(***************************************************************************)
(* canvas.py: drawing, snapping and the pointer handlers.  A handler takes *)
(* the canvas object c, the heap h and the event and returns the canvas,   *)
(* the heap and the exception it raised.  event.x is taken in canvas       *)
(* coordinates (the view is not scrolled: canvasx(event.x) = event.x).     *)
(***************************************************************************)
\* self.waveform_data of the canvas
Trace(c, h) == h.traces[c.waveform_data]

Handled(c, h, raised) == [canvas |-> c, heap |-> h, exc |-> raised]

\* WaveformCanvas.draw_waveforms: the exception it raises.  With signals to
\* draw and max_timestamp > 0 it reaches _calculate_time_step, which divides
\* by time_scale
DrawWaveforms(c, data) ==
    IF Len(data.signals) = 0 THEN "none"
    ELSE LET signals == GetSignalsInDisplayOrder(data) IN
         IF \A k \in 1..Len(signals) : ~signals[k].visible THEN "none"
         ELSE IF data.max_timestamp <= 0 THEN "none"
         ELSE IF c.time_scale[1] = 0 THEN "ZeroDivisionError"
         ELSE "none"

\* str.upper() on the characters of bus values
Upper(s) ==
    LET up(ch) == IF ch = "x" THEN "X" ELSE IF ch = "z" THEN "Z" ELSE ch
        upper[k \in 0..Len(s)] == IF k = 0 THEN "" ELSE upper[k - 1] \o up(CharAt(s, k))
    IN  upper[Len(s)]

\* int(value, 2) succeeds: over the characters 0, 1, x, z, X, Z it does when
\* the string is not empty and holds 0 and 1 only
IsBinary(value) ==
    Len(value) > 0 /\ \A k \in 1..Len(value) : CharAt(value, k) \in {"0", "1"}

\* int(value, 2)
BinaryValue(value) ==
    LET bin[k \in 0..Len(value)] ==
            IF k = 0 THEN 0
            ELSE 2 * bin[k - 1] + (IF CharAt(value, k) = "1" THEN 1 ELSE 0)
    IN  bin[Len(value)]

\* hex(n)[2:].upper(), n >= 0
HexUpper(n) ==
    LET hex[m \in Nat] ==
            IF m < 16 THEN CharAt("0123456789ABCDEF", m + 1)
            ELSE hex[m \div 16] \o CharAt("0123456789ABCDEF", (m % 16) + 1)
    IN  hex[n]

\* WaveformCanvas._format_bus_value
FormatBusValue(value) ==
    IF Len(value) = 0 \/ value \in {"x", "X", "z", "Z"} THEN Upper(value)
    ELSE IF Len(value) > 4
    THEN IF IsBinary(value) THEN "0x" \o HexUpper(BinaryValue(value)) ELSE value
    ELSE value

\* _snap_to_edge without the threshold
SnapToEdgeAlways(c, data, time) ==
    LET edges == GetAllEdges(data)
        dist(k) == RatAbs(RatSub(Q(edges[k]), time))
        closest == CHOOSE k \in 1..Len(edges) : \A j \in 1..Len(edges) :
                       \/ RatLt(dist(k), dist(j))
                       \/ ~RatLt(dist(j), dist(k)) /\ k <= j
    IN  IF Len(edges) = 0 THEN time ELSE Q(edges[closest])

\* _snap_to_edge going half of the way to the nearest edge
SnapToEdgeHalfway(c, data, time) ==
    LET threshold == RatDiv(Q(5), c.time_scale)
        edges == GetAllEdges(data)
        dist(k) == RatAbs(RatSub(Q(edges[k]), time))
        closest == CHOOSE k \in 1..Len(edges) : \A j \in 1..Len(edges) :
                       \/ RatLt(dist(k), dist(j))
                       \/ ~RatLt(dist(j), dist(k)) /\ k <= j
    IN  IF Len(edges) = 0 THEN time
        ELSE IF RatLe(dist(closest), threshold)
        THEN RatDiv(RatAdd(Q(edges[closest]), time), Q(2))
        ELSE time

\* WaveformCanvas._snap_to_edge, time_scale # 0: min(edges, key=...) is the
\* first of the nearest edges
SnapToEdge(c, data, time) ==
    LET threshold == RatDiv(Q(5), c.time_scale)
        edges == GetAllEdges(data)
        dist(k) == RatAbs(RatSub(Q(edges[k]), time))
        closest == CHOOSE k \in 1..Len(edges) : \A j \in 1..Len(edges) :
                       \/ RatLt(dist(k), dist(j))
                       \/ ~RatLt(dist(j), dist(k)) /\ k <= j
    IN  IF Len(edges) = 0 THEN time
        ELSE IF RatLe(dist(closest), threshold) THEN Q(edges[closest])
        ELSE time

\* the time of a pointer position in _on_mouse_drag and _on_double_click,
\* time_scale # 0: _x_to_time, the clamp to [0, max_timestamp], the snap
\* unless Alt is held
PointerTime(c, data, canvas_x) ==
    LET time == PyMax(Q(0), PyMin(Q(data.max_timestamp), XToTime(c, canvas_x))) IN
    IF ~c.alt_pressed THEN SnapToEdge(c, data, time) ELSE time

\* the Marker objects of the marker lists
Listed(h) ==
    UNION {{h.traces[r].markers[k] : k \in 1..Len(h.traces[r].markers)} :
              r \in 1..Len(h.traces)}

\* the Marker object of identity oid
Find(h, oid) ==
    IF \E m \in Listed(h) : m.oid = oid
    THEN CHOOSE m \in Listed(h) : m.oid = oid
    ELSE h.detached[1]

\* an assignment to a field of a Marker object: m is the object after it
Replace(h, m) ==
    [traces |-> [r \in 1..Len(h.traces) |->
                    [h.traces[r] EXCEPT !.markers =
                        [k \in 1..Len(h.traces[r].markers) |->
                            IF h.traces[r].markers[k].oid = m.oid THEN m
                            ELSE h.traces[r].markers[k]]]],
     detached |-> [k \in 1..Len(h.detached) |->
                      IF h.detached[k].oid = m.oid THEN m ELSE h.detached[k]]]

\* the heap h reached from before: the Marker that c.dragged_marker refers to
\* stays when no marker list holds it any more, any other such Marker is gone
Retain(before, h, c) ==
    [h EXCEPT !.detached =
        IF Len(c.dragged_marker) = 0 THEN <<>>
        ELSE IF \E m \in Listed(h) : m.oid = c.dragged_marker[1] THEN <<>>
        ELSE <<Find(before, c.dragged_marker[1])>>]

RECURSIVE AllMarkers(_, _)
\* the Marker objects of the heap: those of the marker lists of the traces from
\* r on, in the order of the lists, then the detached one
AllMarkers(h, r) ==
    IF r > Len(h.traces) THEN h.detached
    ELSE h.traces[r].markers \o AllMarkers(h, r + 1)

\* Marker objects are told apart by oid and by nothing else: they are numbered
\* in the order of AllMarkers, so that one heap has one representation
Renumber(c, h) ==
    LET all == AllMarkers(h, 1)
        new(oid) == CHOOSE p \in 1..Len(all) :
                        all[p].oid = oid /\ \A q \in 1..(p - 1) : all[q].oid # oid
        named(markers) == [k \in 1..Len(markers) |->
                              [markers[k] EXCEPT !.oid = new(markers[k].oid)]]
    IN  [canvas |-> [c EXCEPT !.dragged_marker =
                        IF Len(@) = 0 THEN Nothing ELSE Some(new(@[1]))],
         heap |-> [traces |-> [r \in 1..Len(h.traces) |->
                                  [h.traces[r] EXCEPT !.markers = named(@)]],
                   detached |-> named(h.detached)]]

\* the identity of a new Marker object
NewOid(h) ==
    LET used == {m.oid : m \in Listed(h)} \cup {h.detached[k].oid : k \in 1..Len(h.detached)}
    IN  CHOOSE n \in 1..(Cardinality(used) + 1) :
            n \notin used /\ \A k \in 1..(n - 1) : k \in used

\* _on_mouse_down testing the markers before the cursor
OnMouseDownMarkersFirst(c, h, event) ==
    LET data == Trace(c, h)
        canvas_x == event.x
        near(timestamp) == Abs(canvas_x - TimeToX(c, timestamp)) < 10
        hits == {k \in 1..Len(data.markers) : near(data.markers[k].timestamp)}
    IN  IF hits # {}
        THEN LET marker == data.markers[CHOOSE k \in hits : \A j \in hits : k <= j]
                 c2 == [c EXCEPT !.dragged_object = "marker",
                                 !.dragged_marker = Some(marker.oid)]
                 h2 == Replace(h, [marker EXCEPT !.dragging = TRUE, !.selected = ~@])
             IN  Handled(c2, Retain(h2, h2, c2), DrawWaveforms(c2, Trace(c2, h2)))
        ELSE IF data.cursor.visible /\ near(data.cursor.timestamp)
        THEN Handled([c EXCEPT !.dragged_object = "cursor"],
                     [h EXCEPT !.traces[c.waveform_data].cursor.dragging = TRUE],
                     "none")
        ELSE Handled([c EXCEPT !.dragged_object = "pan",
                               !.drag_start_x = Some(event.x),
                               !.drag_start_y = Some(event.y),
                               !.is_dragging = TRUE],
                     h, "none")

\* _on_mouse_down selecting the marker it hits instead of toggling it
OnMouseDownSelect(c, h, event) ==
    LET data == Trace(c, h)
        canvas_x == event.x
        near(timestamp) == Abs(canvas_x - TimeToX(c, timestamp)) < 10
        hits == {k \in 1..Len(data.markers) : near(data.markers[k].timestamp)}
    IN  IF data.cursor.visible /\ near(data.cursor.timestamp)
        THEN Handled([c EXCEPT !.dragged_object = "cursor"],
                     [h EXCEPT !.traces[c.waveform_data].cursor.dragging = TRUE],
                     "none")
        ELSE IF hits # {}
        THEN LET marker == data.markers[CHOOSE k \in hits : \A j \in hits : k <= j]
                 c2 == [c EXCEPT !.dragged_object = "marker",
                                 !.dragged_marker = Some(marker.oid)]
                 h2 == Replace(h, [marker EXCEPT !.dragging = TRUE, !.selected = TRUE])
             IN  Handled(c2, Retain(h2, h2, c2), DrawWaveforms(c2, Trace(c2, h2)))
        ELSE Handled([c EXCEPT !.dragged_object = "pan",
                               !.drag_start_x = Some(event.x),
                               !.drag_start_y = Some(event.y),
                               !.is_dragging = TRUE],
                     h, "none")

\* WaveformCanvas._on_mouse_down
OnMouseDown(c, h, event) ==
    LET data == Trace(c, h)
        canvas_x == event.x
        near(timestamp) == Abs(canvas_x - TimeToX(c, timestamp)) < 10
        hits == {k \in 1..Len(data.markers) : near(data.markers[k].timestamp)}
    IN  IF data.cursor.visible /\ near(data.cursor.timestamp)
        THEN Handled([c EXCEPT !.dragged_object = "cursor"],
                     [h EXCEPT !.traces[c.waveform_data].cursor.dragging = TRUE],
                     "none")
        ELSE IF hits # {}
        THEN LET marker == data.markers[CHOOSE k \in hits : \A j \in hits : k <= j]
                 c2 == [c EXCEPT !.dragged_object = "marker",
                                 !.dragged_marker = Some(marker.oid)]
                 h2 == Replace(h, [marker EXCEPT !.dragging = TRUE, !.selected = ~@])
             IN  Handled(c2, Retain(h2, h2, c2), DrawWaveforms(c2, Trace(c2, h2)))
        ELSE Handled([c EXCEPT !.dragged_object = "pan",
                               !.drag_start_x = Some(event.x),
                               !.drag_start_y = Some(event.y),
                               !.is_dragging = TRUE],
                     h, "none")

\* WaveformCanvas._on_mouse_drag
OnMouseDrag(c, h, event) ==
    LET data == Trace(c, h)
        canvas_x == event.x
    IN  IF c.dragged_object = "cursor"
        THEN IF c.time_scale[1] = 0 THEN Handled(c, h, "ZeroDivisionError")
             ELSE LET time == PointerTime(c, data, canvas_x)
                      h2 == [h EXCEPT !.traces[c.waveform_data].cursor.timestamp = time]
                  IN  Handled(c, h2, DrawWaveforms(c, Trace(c, h2)))
        ELSE IF c.dragged_object = "marker" /\ Len(c.dragged_marker) > 0
        THEN IF c.time_scale[1] = 0 THEN Handled(c, h, "ZeroDivisionError")
             ELSE LET time == PointerTime(c, data, canvas_x)
                      marker == Find(h, c.dragged_marker[1])
                      h2 == Replace(h, [marker EXCEPT !.timestamp = time])
                      h3 == [h2 EXCEPT !.traces[c.waveform_data].markers = SortMarkers(@)]
                  IN  Handled(c, h3, DrawWaveforms(c, Trace(c, h3)))
        ELSE IF c.dragged_object = "pan"
        THEN IF ~c.is_dragging \/ Len(c.drag_start_x) = 0 \/ Len(c.drag_start_y) = 0
             THEN Handled(c, h, "none")
             ELSE Handled([c EXCEPT !.drag_start_x = Some(event.x),
                                    !.drag_start_y = Some(event.y)],
                          h, "none")
        ELSE Handled(c, h, "none")

\* _on_mouse_up leaving the dragging flag of the marker
OnMouseUpKeepFlag(c, h) ==
    LET h2 == [h EXCEPT !.traces[c.waveform_data].cursor.dragging = FALSE]
        c2 == [c EXCEPT !.dragged_marker = Nothing, !.drag_start_x = Nothing,
                        !.drag_start_y = Nothing, !.is_dragging = FALSE,
                        !.dragged_object = None]
    IN  Handled(c2, Retain(h2, h2, c2), "none")

\* WaveformCanvas._on_mouse_up
OnMouseUp(c, h) ==
    LET h2 == [h EXCEPT !.traces[c.waveform_data].cursor.dragging = FALSE]
        h3 == IF Len(c.dragged_marker) > 0
              THEN Replace(h2, [Find(h2, c.dragged_marker[1]) EXCEPT !.dragging = FALSE])
              ELSE h2
        c2 == [c EXCEPT !.dragged_marker = Nothing, !.drag_start_x = Nothing,
                        !.drag_start_y = Nothing, !.is_dragging = FALSE,
                        !.dragged_object = None]
    IN  Handled(c2, Retain(h3, h3, c2), "none")

\* WaveformCanvas._on_double_click
OnDoubleClick(c, h, event) ==
    LET data == Trace(c, h)
        canvas_x == event.x
    IN  IF c.time_scale[1] = 0 THEN Handled(c, h, "ZeroDivisionError")
        ELSE LET time == PointerTime(c, data, canvas_x)
                 marker == Marker(NewOid(h), time,
                                  "M" \o Decimal(Len(data.markers) + 1), "cyan")
                 h2 == [h EXCEPT !.traces[c.waveform_data] = AddMarker(@, marker)]
             IN  Handled(c, h2, DrawWaveforms(c, Trace(c, h2)))

(***************************************************************************)
(* viewer.py: the commands of the viewer.  A command takes the viewer v,   *)
(* the canvas c, the heap h and the toolkit state t.                       *)
(***************************************************************************)
\* _calculate_fit_zoom leaving no room at the right
CalculateFitZoomNoPad(c, data, width) ==
    IF data.max_timestamp > 0
    THEN LET canvas_width == IF width <= 1 THEN 1000 ELSE width
             available_width == canvas_width - c.left_margin
         IN  Rat(available_width, data.max_timestamp)
    ELSE Q(1)

\* WaveformViewer._calculate_fit_zoom: the scale it sets
CalculateFitZoom(c, data, width) ==
    IF data.max_timestamp > 0
    THEN LET canvas_width == IF width <= 1 THEN 1000 ELSE width
             available_width == canvas_width - c.left_margin - 100
         IN  Rat(available_width, data.max_timestamp)
    ELSE Q(1)

\* WaveformViewer._populate_signal_list: the names it puts in the listbox and
\* in display_order
PopulateSignalList(data) ==
    LET signals == GetAllSignals(data) IN
    [i \in 1..Len(signals) |-> GetFullName(signals[i])]

\* WaveformViewer._on_signal_select: selection is the rows selected
OnSignalSelect(data, listbox, selection) ==
    LET selected_names == {listbox[i] : i \in selection} IN
    [data EXCEPT !.signals =
        [k \in 1..Len(data.signals) |->
            [data.signals[k] EXCEPT
                !.visible = GetFullName(data.signals[k]) \in selected_names]]]

\* WaveformViewer._hide_signal on the signal that _show_signal_context_menu
\* finds for row i of the listbox
HideSignal(data, listbox, i) ==
    LET k == GetSignalByName(data, listbox[i]) IN
    IF k = 0 THEN data ELSE [data EXCEPT !.signals[k].visible = FALSE]

\* WaveformViewer.clear_markers
ClearMarkers(v, c, h) ==
    LET h2 == [h EXCEPT !.traces[v.waveform_data].markers = <<>>] IN
    Handled(c, Retain(h, h2, c), DrawWaveforms(c, Trace(c, h2)))

RECURSIVE RemoveMarkers(_, _)
\* for marker in selected: remove_marker(marker)
RemoveMarkers(data, selected) ==
    IF Len(selected) = 0 THEN data
    ELSE RemoveMarkers(RemoveMarker(data, Head(selected)), Tail(selected))

\* WaveformViewer.delete_selected_markers
DeleteSelectedMarkers(v, c, h) ==
    LET h2 == [h EXCEPT !.traces[v.waveform_data] =
                  RemoveMarkers(@, GetSelectedMarkers(@))]
    IN  Handled(c, Retain(h, h2, c), DrawWaveforms(c, Trace(c, h2)))

\* WaveformViewer.toggle_cursor
ToggleCursor(v, c, h) ==
    LET h2 == [h EXCEPT !.traces[v.waveform_data].cursor.visible = ~@] IN
    Handled(c, h2, DrawWaveforms(c, Trace(c, h2)))

\* update_delta_display taking the last two selected markers
UpdateDeltaDisplayLast(v, h) ==
    LET selected == GetSelectedMarkers(h.traces[v.waveform_data]) IN
    IF Len(selected) >= 2
    THEN Some(RatAbs(RatSub(selected[Len(selected)].timestamp,
                            selected[Len(selected) - 1].timestamp)))
    ELSE Nothing

\* WaveformViewer.update_delta_display: the delta that _format_time_precise
\* renders into the text of delta_label, or Nothing when the text is empty
UpdateDeltaDisplay(v, h) ==
    LET selected == GetSelectedMarkers(h.traces[v.waveform_data]) IN
    IF Len(selected) >= 2
    THEN Some(RatAbs(RatSub(selected[2].timestamp, selected[1].timestamp)))
    ELSE Nothing

\* WaveformViewer.zoom_in
ZoomIn(v, c, h) ==
    IF h.traces[v.waveform_data].max_timestamp > 0
    THEN LET c2 == [c EXCEPT !.time_scale = RatMul(@, Rat(3, 2))] IN
         Handled(c2, h, DrawWaveforms(c2, Trace(c2, h)))
    ELSE Handled(c, h, "none")

\* zoom_out keeping 5 pixels of timeline instead of 50
ZoomOutLowFloor(v, c, h) ==
    IF h.traces[v.waveform_data].max_timestamp > 0
    THEN LET new_scale == RatDiv(c.time_scale, Rat(3, 2))
             min_scale == Rat(5, h.traces[v.waveform_data].max_timestamp)
             c2 == [c EXCEPT !.time_scale =
                       IF RatLe(min_scale, new_scale) THEN new_scale ELSE min_scale]
         IN  Handled(c2, h, DrawWaveforms(c2, Trace(c2, h)))
    ELSE Handled(c, h, "none")

\* WaveformViewer.zoom_out
ZoomOut(v, c, h) ==
    IF h.traces[v.waveform_data].max_timestamp > 0
    THEN LET new_scale == RatDiv(c.time_scale, Rat(3, 2))
             min_scale == Rat(50, h.traces[v.waveform_data].max_timestamp)
             c2 == [c EXCEPT !.time_scale =
                       IF RatLe(min_scale, new_scale) THEN new_scale ELSE min_scale]
         IN  Handled(c2, h, DrawWaveforms(c2, Trace(c2, h)))
    ELSE Handled(c, h, "none")

\* WaveformViewer.zoom_fit
ZoomFit(v, c, h, t) ==
    LET c2 == [c EXCEPT !.time_scale =
                  CalculateFitZoom(c, h.traces[v.waveform_data], t.width)]
    IN  Handled(c2, h, DrawWaveforms(c2, Trace(c2, h)))

(***************************************************************************)
(* The files the viewer is asked to load, each with what parse_file makes  *)
(* of it: the loop of _parse_lines run to the end of the file or to the    *)
(* exception that leaves it.                                               *)
(***************************************************************************)
RECURSIVE ParseLines(_, _)
ParseLines(p, f) ==
    IF Len(f.lines) = 0 THEN [parser |-> p, exc |-> "none"]
    ELSE LET r == ParseLine(p, f) IN
         IF r.exc # "none" THEN [parser |-> r.parser, exc |-> r.exc]
         ELSE ParseLines(r.parser, r.frame)

\* the files that exist, by name
Files ==
    [name \in {"waves.vcd", "width.vcd"} |->
        IF name = "waves.vcd"
        THEN <<"$timescale 1ns $end", "$scope module top $end",
               "$var wire 1 ! clk $end", "$var wire 4 \" data $end",
               "$upscope $end", "$enddefinitions $end",
               "#0", "0!", "b0000 \"", "#2", "b1010 \"", "#5", "1!">>
        ELSE <<"$scope module top $end", "$var wire x ! clk $end",
               "$upscope $end", "$enddefinitions $end", "#0", "0!">>]

FileNames == DOMAIN Files \cup {"missing.vcd", "locked.vcd"}

\* parse_file(name) for the files that exist
Parsed == [name \in DOMAIN Files |-> ParseLines(Parser, Frame(Files[name], TRUE))]

\* parse_file(filename): open() raises FileNotFoundError when the file does
\* not exist and PermissionError when it may not be read
ParseFileOf(name) ==
    IF name \in DOMAIN Files THEN Parsed[name]
    ELSE IF name = "locked.vcd" THEN [parser |-> Parser, exc |-> "PermissionError"]
    ELSE [parser |-> Parser, exc |-> "FileNotFoundError"]

Loaded(v, c, h, t, raised) == [viewer |-> v, canvas |-> c, heap |-> h, tk |-> t, exc |-> raised]

\* load_vcd_file without the assignment to canvas.waveform_data: the viewer
\* turns to the new trace and the canvas keeps the old one
LoadVcdFileViewerOnly(v, c, h, t, parsed) ==
    IF parsed.exc # "none" THEN Loaded(v, c, h, t, "none")
    ELSE LET names == PopulateSignalList(parsed.parser.data)
             data2 == [parsed.parser.data EXCEPT !.display_order = names,
                                                 !.cursor = Cursor(Q(0))]
         IN  Loaded([v EXCEPT !.waveform_data = 2, !.file_loaded = TRUE], c,
                    [h EXCEPT !.traces = <<h.traces[c.waveform_data], data2>>],
                    [t EXCEPT !.listbox = names], "none")

\* load_vcd_file handing the markers and the cursor of the old trace on
LoadVcdFileKeep(v, c, h, t, parsed) ==
    IF parsed.exc # "none" THEN Loaded(v, c, h, t, "none")
    ELSE LET data == [parsed.parser.data EXCEPT
                         !.markers = h.traces[v.waveform_data].markers]
             v2 == [v EXCEPT !.waveform_data = 1]
             c2 == [c EXCEPT !.waveform_data = 1,
                             !.time_scale = CalculateFitZoom(c, data, t.width)]
             raised == DrawWaveforms(c2, data)
             names == PopulateSignalList(data)
             data2 == [data EXCEPT !.display_order = names,
                                   !.cursor = h.traces[v.waveform_data].cursor]
         IN  IF raised # "none"
             THEN Loaded(v2, c2, Retain(h, [traces |-> <<data>>, detached |-> <<>>], c2),
                         t, "none")
             ELSE Loaded([v2 EXCEPT !.file_loaded = TRUE], c2,
                         Retain(h, [traces |-> <<data2>>, detached |-> <<>>], c2),
                         [t EXCEPT !.listbox = names], "none")

\* load_vcd_file turning to the trace of the parser when parse_file raises
LoadVcdFileForget(v, c, h, t, parsed) ==
    IF parsed.exc # "none"
    THEN Loaded(v, c, Retain(h, [traces |-> <<parsed.parser.data>>, detached |-> <<>>], c),
                t, "none")
    ELSE LET data == parsed.parser.data
             v2 == [v EXCEPT !.waveform_data = 1]
             c2 == [c EXCEPT !.waveform_data = 1,
                             !.time_scale = CalculateFitZoom(c, data, t.width)]
             raised == DrawWaveforms(c2, data)
             names == PopulateSignalList(data)
             data2 == [data EXCEPT !.display_order = names, !.cursor = Cursor(Q(0))]
         IN  IF raised # "none"
             THEN Loaded(v2, c2, Retain(h, [traces |-> <<data>>, detached |-> <<>>], c2),
                         t, "none")
             ELSE Loaded([v2 EXCEPT !.file_loaded = TRUE], c2,
                         Retain(h, [traces |-> <<data2>>, detached |-> <<>>], c2),
                         [t EXCEPT !.listbox = names], "none")

\* WaveformViewer.load_vcd_file, parsed being what parse_file made of the
\* file.  Its handlers catch what parse_file, the fit and the drawing raise
\* (FileNotFoundError, ValueError, ZeroDivisionError), so no exception leaves
\* it and the statements after the raise are not run.  The viewer and the
\* canvas both turn to the new trace, which takes the place of the old one in
\* the heap
LoadVcdFile(v, c, h, t, parsed) ==
    IF parsed.exc # "none" THEN Loaded(v, c, h, t, "none")
    ELSE LET data == parsed.parser.data
             v2 == [v EXCEPT !.waveform_data = 1]
             c2 == [c EXCEPT !.waveform_data = 1,
                             !.time_scale = CalculateFitZoom(c, data, t.width)]
             raised == DrawWaveforms(c2, data)
             names == PopulateSignalList(data)
             data2 == [data EXCEPT !.display_order = names, !.cursor = Cursor(Q(0))]
         IN  IF raised # "none"
             THEN Loaded(v2, c2, Retain(h, [traces |-> <<data>>, detached |-> <<>>], c2),
                         t, "none")
             ELSE Loaded([v2 EXCEPT !.file_loaded = TRUE], c2,
                         Retain(h, [traces |-> <<data2>>, detached |-> <<>>], c2),
                         [t EXCEPT !.listbox = names], "none")

(***************************************************************************)
(* The events of the view.  call is the last query made and is reset by    *)
(* every event; the parser object is written by parse_file only and read   *)
(* by nothing else, and is left out of the events.                         *)
(***************************************************************************)
MaxMarkers == 2     \* markers of a trace

\* pointer positions on the timeline of waves.vcd: 3 pixels past the edge at 2,
\* between the edges at 3, beyond max_timestamp
PointerXs == {483, 620, 905}

PointerYs == {30}

PointerEvents == [x : PointerXs, y : PointerYs]

\* widths of the canvas widget: not yet laid out (winfo_width() is 1), narrower
\* than the label gutter and the pad, as wide as the two, wider
CanvasWidths == {1, 250, 300, 320, 800}

Apply(r) ==
    /\ canvas' = Renumber(r.canvas, r.heap).canvas
    /\ heap' = Renumber(r.canvas, r.heap).heap
    /\ exc' = r.exc
    /\ call' = Idle
    /\ UNCHANGED <<parser, frame, pc, ref>>

\* File > Open
Load ==
    \E name \in FileNames :
        \E r \in {LoadVcdFile(viewer, canvas, heap, tk, ParseFileOf(name))} :
        /\ viewer' = r.viewer
        /\ tk' = r.tk
        /\ Apply(r)

\* <ButtonPress-1> at the pointer position of event
MouseDownAt(event) ==
    /\ Apply(OnMouseDown(canvas, heap, event))
    /\ UNCHANGED <<viewer, tk>>

\* <ButtonPress-1>
MouseDown == \E event \in PointerEvents : MouseDownAt(event)

\* <B1-Motion> at the pointer position of event
MouseDragAt(event) ==
    /\ Apply(OnMouseDrag(canvas, heap, event))
    /\ UNCHANGED <<viewer, tk>>

\* <B1-Motion>
MouseDrag == \E event \in PointerEvents : MouseDragAt(event)

\* <ButtonRelease-1>
MouseUp ==
    /\ Apply(OnMouseUp(canvas, heap))
    /\ UNCHANGED <<viewer, tk>>

\* <Double-Button-1> at the pointer position of event
DoubleClickAt(event) ==
    /\ Len(Trace(canvas, heap).markers) < MaxMarkers
    /\ Apply(OnDoubleClick(canvas, heap, event))
    /\ UNCHANGED <<viewer, tk>>

\* <Double-Button-1>
DoubleClick == \E event \in PointerEvents : DoubleClickAt(event)

\* <KeyPress-Alt_L>, <KeyPress-Alt_R>
AltPress ==
    /\ Apply(Handled([canvas EXCEPT !.alt_pressed = TRUE], heap, "none"))
    /\ UNCHANGED <<viewer, tk>>

\* <KeyRelease-Alt_L>, <KeyRelease-Alt_R>
AltRelease ==
    /\ Apply(Handled([canvas EXCEPT !.alt_pressed = FALSE], heap, "none"))
    /\ UNCHANGED <<viewer, tk>>

\* Markers > Clear
ClearMarkersCommand ==
    /\ Apply(ClearMarkers(viewer, canvas, heap))
    /\ UNCHANGED <<viewer, tk>>

\* Markers > Delete selected
DeleteSelectedMarkersCommand ==
    /\ Apply(DeleteSelectedMarkers(viewer, canvas, heap))
    /\ UNCHANGED <<viewer, tk>>

\* View > Toggle cursor
ToggleCursorCommand ==
    /\ Apply(ToggleCursor(viewer, canvas, heap))
    /\ UNCHANGED <<viewer, tk>>

\* <<ListboxSelect>> with the rows of selection selected
SignalSelect ==
    /\ \E selection \in SUBSET (1..Len(tk.listbox)) :
          LET h2 == [heap EXCEPT !.traces[viewer.waveform_data] =
                        OnSignalSelect(@, tk.listbox, selection)]
          IN  Apply(Handled(canvas, h2, DrawWaveforms(canvas, Trace(canvas, h2))))
    /\ UNCHANGED <<viewer, tk>>

\* Hide Signal in the context menu of row i of the listbox
SignalHide ==
    /\ \E i \in 1..Len(tk.listbox) :
          LET h2 == [heap EXCEPT !.traces[viewer.waveform_data] =
                        HideSignal(@, tk.listbox, i)]
          IN  Apply(Handled(canvas, h2, DrawWaveforms(canvas, Trace(canvas, h2))))
    /\ UNCHANGED <<viewer, tk>>

\* the window is laid out: the canvas widget gets its width
Resize ==
    /\ \E width \in CanvasWidths : tk' = [tk EXCEPT !.width = width]
    /\ UNCHANGED <<parser, frame, pc, exc, ref, call, viewer, canvas, heap>>

\* data.get_all_edges() on the trace of the canvas
GetAllEdgesCall ==
    /\ call' = [fn |-> "get_all_edges", result |-> GetAllEdges(Trace(canvas, heap))]
    /\ UNCHANGED <<parser, frame, pc, exc, ref, viewer, canvas, heap, tk>>

\* a command of the toolbar with the effect r
Command(r) ==
    /\ \E n \in {Renumber(r.canvas, r.heap)} : canvas' = n.canvas /\ heap' = n.heap
    /\ exc' = r.exc
    /\ UNCHANGED <<parser, frame, pc, ref, viewer, tk>>

MaxScale == 8       \* zoom_in is not followed above this scale

\* Zoom In; call records the command and the scale it found
ZoomInCommand ==
    /\ RatLe(RatAbs(canvas.time_scale), Q(MaxScale))
    /\ call' = [fn |-> "zoom_in", time_scale |-> canvas.time_scale]
    /\ Command(ZoomIn(viewer, canvas, heap))

\* Zoom Out
ZoomOutCommand ==
    /\ call' = [fn |-> "zoom_out", time_scale |-> canvas.time_scale]
    /\ Command(ZoomOut(viewer, canvas, heap))

\* Fit, on a canvas of the width tk.width
ZoomFitCommand ==
    /\ call' = [fn |-> "zoom_fit", time_scale |-> canvas.time_scale, width |-> tk.width]
    /\ Command(ZoomFit(viewer, canvas, heap, tk))

NextMarkers ==
    \/ Load
    \/ MouseDown
    \/ MouseDrag
    \/ MouseUp
    \/ DoubleClick
    \/ ClearMarkersCommand
    \/ DeleteSelectedMarkersCommand

\* the pointer and the marker commands on the traces loaded from Files
SpecMarkers == InitParse /\ [][NextMarkers]_vars

(***************************************************************************)
(* get_all_edges on a loaded trace of two signals whose changes are any    *)
(* lists of at most MaxEdges records, under the changes of visibility the  *)
(* signal list makes.                                                      *)
(***************************************************************************)
MaxEdges == 2       \* change records of a signal of the trace

EdgeLists == UNION {[1..n -> (0..MaxTime) \X {"1"}] : n \in 0..MaxEdges}

\* the largest timestamp of the lists, as update_max_timestamp leaves it
MaxOf(lists) ==
    LET all == {0} \cup UNION {{lists[k][c][1] : c \in 1..Len(lists[k])} : k \in 1..Len(lists)}
    IN  CHOOSE t \in all : \A u \in all : u <= t

InitEdges ==
    /\ parser = Parser
    /\ frame = Frame(<<>>, FALSE)
    /\ pc = "idle"
    /\ exc = "none"
    /\ ref = NoRef
    /\ call = Idle
    /\ viewer = [WaveformViewer EXCEPT !.file_loaded = TRUE]
    /\ \E clk, data \in EdgeLists :
          LET trace == [WaveformData EXCEPT
                           !.signals = <<[Signal("!", "clk", 1, "top") EXCEPT !.changes = clk],
                                         [Signal("\"", "data", 4, "top") EXCEPT !.changes = data]>>,
                           !.max_timestamp = MaxOf(<<clk, data>>)]
              names == PopulateSignalList(trace)
          IN  /\ heap = [Heap EXCEPT !.traces[1] = [trace EXCEPT !.display_order = names]]
              /\ tk = [Tk EXCEPT !.listbox = names]
              /\ canvas = [WaveformCanvas(1) EXCEPT
                              !.time_scale = CalculateFitZoom(WaveformCanvas(1), trace, Tk.width)]

NextEdges ==
    \/ SignalSelect
    \/ SignalHide
    \/ GetAllEdgesCall

SpecEdges == InitEdges /\ [][NextEdges]_vars


(***************************************************************************)
(* The zoom commands on a trace of one signal whose last change is at a    *)
(* time of ZoomTimes, loaded into a canvas of a width of CanvasWidths and  *)
(* zoomed in up to MaxZoomIns times.                                       *)
(***************************************************************************)
MaxZoomIns == 3     \* zoom_in commands before the first state

ZoomTimes == {0, 5, 100}

RECURSIVE ZoomedIn(_, _, _, _)
\* zoom_in k times
ZoomedIn(v, c, h, k) ==
    IF k = 0 THEN Handled(c, h, "none")
    ELSE LET r == ZoomedIn(v, c, h, k - 1) IN ZoomIn(v, r.canvas, r.heap)

InitZoom ==
    /\ parser = Parser
    /\ frame = Frame(<<>>, FALSE)
    /\ pc = "idle"
    /\ ref = NoRef
    /\ call = Idle
    /\ \E m \in ZoomTimes, width \in CanvasWidths, k \in 0..MaxZoomIns :
          LET trace == [WaveformData EXCEPT
                           !.signals = <<[Signal("!", "clk", 1, "top") EXCEPT
                                             !.changes = <<<<0, "0">>, <<m, "1">>>>]>>,
                           !.max_timestamp = m]
              loaded == LoadVcdFile(WaveformViewer, WaveformCanvas(1), Heap,
                                    [Tk EXCEPT !.width = width],
                                    [parser |-> [Parser EXCEPT !.data = trace],
                                     exc |-> "none"])
          IN  \E zoomed \in {ZoomedIn(loaded.viewer, loaded.canvas, loaded.heap, k)} :
                  /\ viewer = loaded.viewer
                  /\ tk = loaded.tk
                  /\ canvas = zoomed.canvas
                  /\ heap = zoomed.heap
                  /\ exc = zoomed.exc

NextZoom ==
    \/ Load
    \/ Resize
    \/ ZoomInCommand
    \/ ZoomOutCommand
    \/ ZoomFitCommand

SpecZoom == InitZoom /\ [][NextZoom]_vars

NextZoomOut == ZoomOutCommand

\* Zoom Out pressed again and again
SpecZoomOut == InitZoom /\ [][NextZoomOut]_vars /\ WF_vars(NextZoomOut)

(***************************************************************************)
(* _snap_to_edge on a trace whose visible signal changes at the times of a *)
(* subset of SnapEdges and whose hidden signal changes at HiddenEdge, at   *)
(* the scales of SnapScales (its callers divide by time_scale before they  *)
(* call it, so it is not reached at scale 0).                              *)
(***************************************************************************)
MaxSnapTime == 105  \* times snapped

SnapEdges == {10, 50, 100}

HiddenEdge == 53

SnapScales == {Rat(1, 1), Rat(1, 2), Rat(5, 1), Rat(5, 2), Rat(-1, 2)}

SnapTimes == {Rat(n, d) : n \in 0..MaxSnapTime, d \in {1, 2}}

InitSnap ==
    /\ parser = Parser
    /\ frame = Frame(<<>>, FALSE)
    /\ pc = "idle"
    /\ exc = "none"
    /\ ref = NoRef
    /\ call = Idle
    /\ viewer = [WaveformViewer EXCEPT !.file_loaded = TRUE]
    /\ \E edges \in SUBSET SnapEdges, scale \in SnapScales :
          LET times == SortedSet(edges)
              trace == [WaveformData EXCEPT
                           !.signals =
                               <<[Signal("!", "clk", 1, "top") EXCEPT
                                     !.changes = [k \in 1..Len(times) |-> <<times[k], "1">>]],
                                 [Signal("\"", "data", 4, "top") EXCEPT
                                     !.changes = <<<<HiddenEdge, "0000">>>>,
                                     !.visible = FALSE]>>,
                           !.max_timestamp = MaxOf(<<<<<<HiddenEdge, "0000">>>>,
                                                     [k \in 1..Len(times) |-> <<times[k], "1">>]>>)]
              names == PopulateSignalList(trace)
          IN  /\ heap = [Heap EXCEPT !.traces[1] = [trace EXCEPT !.display_order = names]]
              /\ tk = [Tk EXCEPT !.listbox = names]
              /\ canvas = [WaveformCanvas(1) EXCEPT !.time_scale = scale]

\* canvas._snap_to_edge(time), once
SnapToEdgeCall ==
    /\ call = Idle
    /\ \E time \in SnapTimes :
          call' = [fn |-> "_snap_to_edge", time |-> time,
                   result |-> SnapToEdge(canvas, Trace(canvas, heap), time)]
    /\ UNCHANGED <<parser, frame, pc, exc, ref, viewer, canvas, heap, tk>>

NextSnap == SnapToEdgeCall

SpecSnap == InitSnap /\ [][NextSnap]_vars

(***************************************************************************)
(* _format_bus_value on every value of at most MaxBits characters of       *)
(* BusChars.                                                               *)
(***************************************************************************)
MaxBits == 5        \* characters of a bus value

BusChars == {"0", "1", "x", "z", "X", "Z"}

RECURSIVE BusValues(_)
\* the values of n characters
BusValues(n) ==
    IF n = 0 THEN {""}
    ELSE {v \o ch : v \in BusValues(n - 1), ch \in BusChars}

\* canvas._format_bus_value(value), once
FormatBusValueCall ==
    /\ call = Idle
    /\ \E n \in 0..MaxBits : \E value \in BusValues(n) :
          call' = [fn |-> "_format_bus_value", value |-> value,
                   result |-> FormatBusValue(value)]
    /\ UNCHANGED <<parser, frame, pc, exc, ref, viewer, canvas, heap, tk>>

NextBus == FormatBusValueCall

SpecBus == InitParse /\ [][NextBus]_vars

(***************************************************************************)
(* The pointer, the Alt key and the cursor command on the trace of         *)
(* waves.vcd.  It was loaded before the canvas was laid out (scale 140:    *)
(* the edges 0, 2 and 5 are at the pixels 200, 480 and 900) and the cursor *)
(* was dragged to the edge at 2, or it was loaded into a canvas of 300     *)
(* pixels (scale 0: every time is at the pixel 200).  The events of button *)
(* 1 come as Tk delivers them: a press, motions, the release.              *)
(***************************************************************************)
\* pointer positions: 5 pixels right of the label gutter, 3 pixels past the
\* edge at 2, beyond max_timestamp
GestureXs == {205, 483, 905}

GestureEvents == [x : GestureXs, y : PointerYs]

InitPointer ==
    /\ parser = Parser
    /\ frame = Frame(<<>>, FALSE)
    /\ pc = "idle"
    /\ ref = NoRef
    /\ call = Idle
    /\ \E width \in {1, 300} :
       \E loaded \in {LoadVcdFile(WaveformViewer, WaveformCanvas(1), Heap,
                                   [Tk EXCEPT !.width = width],
                                   ParseFileOf("waves.vcd"))} :
          /\ viewer = loaded.viewer
          /\ tk = loaded.tk
          /\ canvas = loaded.canvas
          /\ heap = IF width = 1
                    THEN [loaded.heap EXCEPT !.traces[1].cursor.timestamp = Q(2)]
                    ELSE loaded.heap
          /\ exc = loaded.exc

\* button 1 goes down with no button held: every press sets dragged_object
\* and the release resets it (the release after a double click finds the
\* canvas as the double click left it and changes nothing)
Press ==
    /\ canvas.dragged_object = None
    /\ \E event \in GestureEvents : MouseDownAt(event)

\* the pointer moves with button 1 held
Move == \E event \in GestureEvents : MouseDragAt(event)

\* button 1 goes down for the second time in a short while: the binding of
\* <Double-Button-1> takes the place of <ButtonPress-1> for this press
DoublePress ==
    /\ canvas.dragged_object = None
    /\ \E event \in GestureEvents : DoubleClickAt(event)

NextPointer ==
    \/ Press
    \/ Move
    \/ MouseUp
    \/ DoublePress
    \/ AltPress
    \/ AltRelease
    \/ ToggleCursorCommand

SpecPointer == InitPointer /\ [][NextPointer]_vars

(***************************************************************************)
(* Loads, one after the other, of files that exist and files that do not,  *)
(* with the pointer and the cursor at work on the trace between them.      *)
(***************************************************************************)
\* File > Open on the file name; call records the command
OpenFile(name) ==
    \E r \in {LoadVcdFile(viewer, canvas, heap, tk, ParseFileOf(name))} :
    \E n \in {Renumber(r.canvas, r.heap)} :
        /\ viewer' = r.viewer
        /\ tk' = r.tk
        /\ canvas' = n.canvas
        /\ heap' = n.heap
        /\ exc' = r.exc
        /\ call' = [fn |-> "load_vcd_file", filename |-> name]
        /\ UNCHANGED <<parser, frame, pc, ref>>

Open == \E name \in FileNames : OpenFile(name)

NextLoad ==
    \/ Open
    \/ Press
    \/ Move
    \/ MouseUp
    \/ DoublePress
    \/ ToggleCursorCommand

SpecLoad == InitParse /\ [][NextLoad]_vars

(***************************************************************************)
(* Signal.add_change on a signal as constructed, called with any           *)
(* timestamps and values.  ref keeps the calls made, in their order.       *)
(***************************************************************************)
InitAddChange ==
    /\ parser = Parser
    /\ frame = Frame(<<>>, FALSE)
    /\ pc = "idle"
    /\ exc = "none"
    /\ ref = [on |-> TRUE, appended |-> <<>>]
    /\ call = Idle
    /\ viewer = WaveformViewer
    /\ canvas = WaveformCanvas(1)
    /\ tk = Tk
    /\ heap = [Heap EXCEPT !.traces[1].signals = <<Signal("!", "clk", 1, "top")>>]

\* signal.add_change(timestamp, value)
AddChangeCall ==
    /\ Len(heap.traces[1].signals[1].changes) < MaxChanges
    /\ \E timestamp \in 0..MaxTime, value \in ChangeValues :
          /\ heap' = [heap EXCEPT !.traces[1].signals[1] = AddChange(@, timestamp, value)]
          /\ ref' = [ref EXCEPT !.appended = Append(@, <<timestamp, value>>)]
          /\ call' = [fn |-> "add_change", timestamp |-> timestamp, value |-> value]
    /\ UNCHANGED <<parser, frame, pc, exc, viewer, canvas, tk>>

SpecAddChange == InitAddChange /\ [][AddChangeCall]_vars

(***************************************************************************)
(* update_delta_display on waves.vcd at scale 140 with three markers, at   *)
(* the times 0, 3 and 5, and the cursor at 2.  The pointer selects and     *)
(* unselects the markers in any order and drags them past one another.     *)
(***************************************************************************)
\* pointer positions: 5 pixels past the marker at 0, on the marker at 3, 5
\* pixels past the marker at 5
DeltaXs == {205, 620, 905}

DeltaEvents == [x : DeltaXs, y : PointerYs]

InitDelta ==
    /\ parser = Parser
    /\ frame = Frame(<<>>, FALSE)
    /\ pc = "idle"
    /\ ref = NoRef
    /\ call = Idle
    /\ \E loaded \in {LoadVcdFile(WaveformViewer, WaveformCanvas(1), Heap, Tk,
                                   ParseFileOf("waves.vcd"))} :
          /\ viewer = loaded.viewer
          /\ tk = loaded.tk
          /\ canvas = loaded.canvas
          /\ heap = [loaded.heap EXCEPT
                        !.traces[1].cursor.timestamp = Q(2),
                        !.traces[1].markers = <<Marker(1, Q(0), "M1", "cyan"),
                                                Marker(2, Q(3), "M2", "cyan"),
                                                Marker(3, Q(5), "M3", "cyan")>>]
          /\ exc = loaded.exc

\* button 1 goes down on a marker
PressMarker ==
    /\ canvas.dragged_object = None
    /\ \E event \in DeltaEvents : MouseDownAt(event)

\* the pointer moves with button 1 held
MoveMarker == \E event \in DeltaEvents : MouseDragAt(event)

\* viewer.update_delta_display()
UpdateDeltaDisplayCall ==
    /\ call = Idle
    /\ call' = [fn |-> "update_delta_display", delta |-> UpdateDeltaDisplay(viewer, heap)]
    /\ UNCHANGED <<parser, frame, pc, exc, ref, viewer, canvas, heap, tk>>

NextDelta ==
    \/ PressMarker
    \/ MoveMarker
    \/ MouseUp
    \/ UpdateDeltaDisplayCall

SpecDelta == InitDelta /\ [][NextDelta]_vars

(***************************************************************************)
(* The claims about the parser.                                            *)
(***************************************************************************)
RECURSIVE Dotted(_)
\* scope names joined by '.', outermost first
Dotted(names) ==
    IF Len(names) = 0 THEN ""
    ELSE IF Len(names) = 1 THEN names[1]
    ELSE Dotted(SubSeq(names, 1, Len(names) - 1)) \o "." \o names[Len(names)]

\* C1: for a well-formed file parse_file returns a Trace with the declared
\* timescale, one Signal per $var with its declared identifier, name and width
\* and the enclosing scope names joined by '.', each Signal's changes being
\* the value changes written for its identifier, in file order, each with the
\* time of the most recent #t, and max_timestamp the largest #t.
C1_WellFormedParse ==
    (ref.on /\ pc = "returned") =>
        /\ exc = "none"
        /\ parser.data.timescale = ref.timescale
        /\ parser.data.max_timestamp = ref.max_t
        /\ Len(parser.data.signals) = Len(ref.signals)
        /\ \A k \in 1..Len(ref.signals) :
              LET s == parser.data.signals[k]
                  d == ref.signals[k]
              IN  /\ s.identifier = d.var.identifier
                  /\ s.name = d.var.name
                  /\ s.width = d.var.width
                  /\ s.scope = Dotted(d.scopes)
                  /\ s.changes = d.changes

\* a file with a variable declared in a nested scope and changed at #5
C1_Witness ==
    /\ ref.on
    /\ pc = "returned"
    /\ parser.data.max_timestamp = 5
    /\ \E k \in 1..Len(parser.data.signals) :
          /\ parser.data.signals[k].scope = "top.u1"
          /\ Len(parser.data.signals[k].changes) > 0

\* C2: no exception other than IOError/ParseError escapes parse (a $var line
\* whose width is not an integer is skipped and parsing continues).
C2_OnlyIOErrorEscapes ==
    pc = "raised" => exc \in {"IOError", "FileNotFoundError", "ParseError"}

\* C3: for any input text each Signal's changes are non-decreasing by timestamp.
C3_ChangesSorted ==
    \A k \in 1..Len(parser.data.signals) :
        LET changes == parser.data.signals[k].changes IN
        \A a, b \in 1..Len(changes) : a < b => changes[a][1] <= changes[b][1]

\* C4: during and after a parse max_timestamp never decreases and is never
\* smaller than the timestamp of a change record of any Signal.
C4_MaxTimestamp ==
    /\ [](\A k \in 1..Len(parser.data.signals) :
            \A c \in 1..Len(parser.data.signals[k].changes) :
                parser.data.signals[k].changes[c][1] <= parser.data.max_timestamp)
    /\ [][pc = "parsing" => parser'.data.max_timestamp >= parser.data.max_timestamp]_vars

\* a parse that recorded a change at a time above the current timestamp
C4_Witness ==
    /\ pc = "returned"
    /\ parser.current_timestamp < parser.data.max_timestamp
    /\ \E k \in 1..Len(parser.data.signals) :
          \E c \in 1..Len(parser.data.signals[k].changes) :
              parser.data.signals[k].changes[c][1] = parser.data.max_timestamp

\* C5: after any sequence of add_marker calls, double-click marker creations,
\* marker drags, remove_marker, delete-selected and clear-markers operations
\* the marker list of the trace is sorted ascending by timestamp.
C5_MarkersSorted ==
    \A r \in 1..Len(heap.traces) :
        LET markers == heap.traces[r].markers IN
        \A a, b \in 1..Len(markers) :
            a < b => RatLe(markers[a].timestamp, markers[b].timestamp)

\* two markers at different times, the one created second standing first
C5_Witness ==
    LET markers == Trace(canvas, heap).markers IN
    /\ Len(markers) = 2
    /\ RatLt(markers[1].timestamp, markers[2].timestamp)
    /\ markers[1].label = "M2"
    /\ markers[2].label = "M1"

\* C6: get_value_at(t) returns the value of the latest change whose timestamp
\* is <= t (the last inserted among ties) and returns none when the signal has
\* no changes or t precedes the first change.  "Latest" is taken in either of
\* its readings (the greatest timestamp <= t, or the last record of the list
\* with a timestamp <= t), and "precedes the first change" as well (no change
\* is <= t, or t is below the first record of the list): the result has to
\* agree with one of them.
C6_LatestChange ==
    call.fn = "get_value_at" =>
        LET changes == heap.traces[1].signals[1].changes
            t == call.timestamp
            upto == {k \in 1..Len(changes) : changes[k][1] <= t}
            greatest == {k \in upto : \A j \in upto :
                            \/ changes[j][1] < changes[k][1]
                            \/ changes[j][1] = changes[k][1] /\ j <= k}
            last == {k \in upto : \A j \in upto : j <= k}
        IN  \/ /\ call.value = None
               /\ \/ Len(changes) = 0
                  \/ upto = {}
                  \/ t < changes[1][1]
            \/ \E k \in greatest \cup last : call.value = changes[k][2]

\* C7: get_value_at is monotonic in t: for t1 < t2 the index in changes of the
\* record returned for t2 is never smaller than the index of the record
\* returned for t1 (index 0: no record returned).
C7_IndexMonotonic ==
    (call.fn = "get_value_at" /\ Len(call.earlier) > 0) =>
        LET before == call.earlier[1] IN
        /\ before.timestamp < call.timestamp => before.index <= call.index
        /\ call.timestamp < before.timestamp => call.index <= before.index

\* two calls t1 < t2 on a signal whose changes are out of order, the second
\* returning a later record
C7_Witness ==
    /\ call.fn = "get_value_at"
    /\ Len(call.earlier) > 0
    /\ call.earlier[1].timestamp < call.timestamp
    /\ 0 < call.earlier[1].index
    /\ call.earlier[1].index < call.index
    /\ LET changes == heap.traces[1].signals[1].changes IN
       \E a, b \in 1..Len(changes) : a < b /\ changes[a][1] > changes[b][1]

\* C8: get_all_edges returns, strictly ascending and without duplicates,
\* exactly the change timestamps of the signals visible at the time of the
\* call: a timestamp that only hidden signals have is not returned, and a
\* change of visibility shows in the next call.
C8_AllEdges ==
    call.fn = "get_all_edges" =>
        LET data == Trace(canvas, heap)
            result == call.result
            visible == {k \in 1..Len(data.signals) : data.signals[k].visible}
        IN  /\ \A a, b \in 1..Len(result) : a < b => result[a] < result[b]
            /\ {result[a] : a \in 1..Len(result)} =
                   UNION {{data.signals[k].changes[c][1] :
                              c \in 1..Len(data.signals[k].changes)} : k \in visible}

\* a call after a signal was hidden that has a timestamp no visible signal has
C8_Witness ==
    /\ call.fn = "get_all_edges"
    /\ Len(call.result) > 0
    /\ LET data == Trace(canvas, heap) IN
       \E k \in 1..Len(data.signals) :
           /\ ~data.signals[k].visible
           /\ \E c \in 1..Len(data.signals[k].changes) :
                 \A a \in 1..Len(call.result) :
                     call.result[a] # data.signals[k].changes[c][1]

\* C9: get_signals_in_display_order returns the live signals named in
\* display_order in that list's order, ignores the entries that name no live
\* signal, then appends every live signal absent from the list in ascending
\* (scope, name) order; with an empty display_order it returns get_all_signals.
C9_DisplayOrder ==
    call.fn = "get_signals_in_display_order" =>
        LET data == heap.traces[1]
            order == data.display_order
            names == {order[i] : i \in 1..Len(order)}
            live == {data.signals[k] : k \in 1..Len(data.signals)}
            named == {s \in live : GetFullName(s) \in names}
            result == call.result
        IN  IF Len(order) = 0 THEN result = GetAllSignals(data)
            ELSE \E n \in 0..Len(result) :
                    LET head == SubSeq(result, 1, n)
                        tail == SubSeq(result, n + 1, Len(result))
                    IN  /\ \A i \in 1..Len(head) : head[i] \in named
                        /\ \A s \in named : \E i \in 1..Len(head) : head[i] = s
                        /\ \A i, j \in 1..Len(head) : i < j =>
                              \E p, q \in 1..Len(order) :
                                  /\ p <= q
                                  /\ order[p] = GetFullName(head[i])
                                  /\ order[q] = GetFullName(head[j])
                        /\ \A i \in 1..Len(tail) : tail[i] \in live \ named
                        /\ \A s \in live \ named :
                              Cardinality({i \in 1..Len(tail) : tail[i] = s}) = 1
                        /\ \A i, j \in 1..Len(tail) : i < j => ~SignalKeyLt(tail[j], tail[i])

\* C10: for every scale > 0 and every t in [0, max_timestamp],
\* to_time(to_pixel(t)) differs from t by at most 1/scale.
C10_RoundTrip ==
    call.fn = "_x_to_time" =>
        RatLe(RatAbs(RatSub(call.result, call.of)), RatDiv(Q(1), canvas.time_scale))

\* a round trip that lost a fraction of a pixel, under a scale that is not a
\* whole number
C10_Witness ==
    /\ call.fn = "_x_to_time"
    /\ call.result # call.of
    /\ canvas.time_scale[2] > 1
    /\ RatLt(Q(0), call.of)



(***************************************************************************)
(* The claims about the zoom.                                              *)
(***************************************************************************)
\* C11: with max_timestamp > 0 a zoom-out sets the scale to old_scale/1.5 when
\* that is at least 50/max_timestamp and to exactly 50/max_timestamp
\* otherwise; with max_timestamp = 100, zoom-out pressed again and again
\* brings the scale to 0.5, where every later zoom-out leaves it.
C11_ZoomOutFloor ==
    /\ [](call.fn = "zoom_out" /\ heap.traces[viewer.waveform_data].max_timestamp > 0 =>
            LET shrunk == RatMul(call.time_scale, Rat(2, 3))
                floor == Rat(50, heap.traces[viewer.waveform_data].max_timestamp)
            IN  canvas.time_scale = IF RatLt(shrunk, floor) THEN floor ELSE shrunk)
    /\ (heap.traces[viewer.waveform_data].max_timestamp = 100)
           ~> [](canvas.time_scale = <<1, 2>>)

\* a zoom-out from a scale above 0.5 has stopped at 0.5 on a trace that ends
\* at 100
C11_Witness ==
    /\ call.fn = "zoom_out"
    /\ heap.traces[viewer.waveform_data].max_timestamp = 100
    /\ RatLt(<<1, 2>>, call.time_scale)
    /\ canvas.time_scale = <<1, 2>>

\* C12: the scale of the view is strictly positive in every state reached by
\* loads, fits to the window, zoom-ins and zoom-outs, whatever the width of
\* the canvas and max_timestamp.
C12_ScalePositive == RatLt(Q(0), canvas.time_scale)

\* C13: fit-to-window sets the scale to (canvas width - 200 - 100) /
\* max_timestamp when max_timestamp > 0 and to 1 when max_timestamp = 0, the
\* canvas width being the width of the widget when the command runs.
C13_FitToWindow ==
    call.fn = "zoom_fit" =>
        canvas.time_scale =
            IF heap.traces[viewer.waveform_data].max_timestamp > 0
            THEN Rat(call.width - 200 - 100, heap.traces[viewer.waveform_data].max_timestamp)
            ELSE Q(1)

\* C13 as amended: the canvas width is taken as 1000 when the widget reports a
\* width of 1 or less (it is not laid out yet).
C13_FitToWindowLaidOut ==
    call.fn = "zoom_fit" =>
        canvas.time_scale =
            IF heap.traces[viewer.waveform_data].max_timestamp > 0
            THEN Rat((IF call.width <= 1 THEN 1000 ELSE call.width) - 200 - 100,
                     heap.traces[viewer.waveform_data].max_timestamp)
            ELSE Q(1)

\* a fit on a canvas that is not laid out, after a zoom, and a fit on a trace
\* that ends at 0
C13_Witness ==
    /\ call.fn = "zoom_fit"
    /\ call.width = 1
    /\ heap.traces[viewer.waveform_data].max_timestamp = 100
    /\ call.time_scale # canvas.time_scale
    /\ canvas.time_scale = <<7, 1>>

\* C14: snap_to_edge(time) returns the timestamp of get_all_edges() nearest to
\* time when its distance is at most 5 pixels divided by the scale, and time
\* unchanged otherwise or when there are no edges; with edges {10, 50, 100}
\* and a threshold of 5 time units, snap(52) = 50 and snap(70) = 70.
C14_SnapToEdge ==
    call.fn = "_snap_to_edge" =>
        LET shown == {e \in 0..MaxSnapTime :
                        \E i \in 1..Len(heap.traces[1].signals) :
                            /\ heap.traces[1].signals[i].visible
                            /\ \E k \in 1..Len(heap.traces[1].signals[i].changes) :
                                   heap.traces[1].signals[i].changes[k][1] = e}
            away(e) == RatAbs(RatSub(Q(e), call.time))
            threshold == RatDiv(Q(5), canvas.time_scale)
            nearest == {e \in shown : \A f \in shown : RatLe(away(e), away(f))}
        IN  /\ IF \E e \in nearest : RatLe(away(e), threshold)
               THEN \E e \in nearest : call.result = Q(e)
               ELSE call.result = call.time
            /\ (shown = {10, 50, 100} /\ canvas.time_scale = Q(1) /\ call.time = Q(52))
                   => call.result = Q(50)
            /\ (shown = {10, 50, 100} /\ canvas.time_scale = Q(1) /\ call.time = Q(70))
                   => call.result = Q(70)

\* snap(52) with the edges {10, 50, 100} shown and an edge at 53 hidden, at
\* scale 1
C14_Witness ==
    /\ call.fn = "_snap_to_edge"
    /\ GetAllEdges(heap.traces[1]) = <<10, 50, 100>>
    /\ canvas.time_scale = Q(1)
    /\ call.time = Q(52)
    /\ call.result = Q(50)

\* C15: format_bus_value renders a value made only of x or z characters (any
\* case, any length) in upper case, any other value of at most 4 characters
\* literally, a longer binary string as upper-case hexadecimal after "0x" and
\* a longer string that is not binary verbatim: "10110" gives "0x16", "101"
\* gives "101", "xx" gives "XX", "zzzz" gives "ZZZZ".
C15_FormatBusValue ==
    call.fn = "_format_bus_value" =>
        LET value == call.value
            pure == /\ Len(value) > 0
                    /\ \A k \in 1..Len(value) : CharAt(value, k) \in {"x", "X", "z", "Z"}
            binary == \A k \in 1..Len(value) : CharAt(value, k) \in {"0", "1"}
        IN  /\ call.result =
                  IF pure THEN Upper(value)
                  ELSE IF Len(value) <= 4 THEN value
                  ELSE IF binary THEN "0x" \o HexUpper(BinaryValue(value))
                  ELSE value
            /\ value = "10110" => call.result = "0x16"
            /\ value = "101" => call.result = "101"
            /\ value = "xx" => call.result = "XX"
            /\ value = "zzzz" => call.result = "ZZZZ"

(***************************************************************************)
(* The claims about the pointer.  DraggingCursor, DraggingMarker and       *)
(* Panning are dragged_object = "cursor", "marker" (with dragged_marker    *)
(* the marker) and "pan"; Idle is dragged_object = None.                   *)
(***************************************************************************)
\* C16: a pointer-down enters DraggingCursor when the pointer is within 10
\* pixels of the pixel of the cursor, even if a marker is within 10 pixels
\* too; otherwise DraggingMarker for the first marker of the list within 10
\* pixels; otherwise Panning.
C16_PointerDown ==
    [][\A event \in GestureEvents : MouseDownAt(event) =>
          LET data == heap.traces[canvas.waveform_data]
              near(timestamp) == Abs(event.x - TimeToX(canvas, timestamp)) < 10
              hits == {k \in 1..Len(data.markers) : near(data.markers[k].timestamp)}
          IN  IF near(data.cursor.timestamp)
              THEN canvas'.dragged_object = "cursor"
              ELSE IF hits # {}
              THEN /\ canvas'.dragged_object = "marker"
                   /\ \E k \in hits :
                         /\ \A j \in hits : k <= j
                         /\ canvas'.dragged_marker =
                                Some(heap'.traces[canvas'.waveform_data].markers[k].oid)
              ELSE canvas'.dragged_object = "pan"]_vars

\* C16 as amended: the cursor is hit only while it is visible.
C16_PointerDownVisible ==
    [][\A event \in GestureEvents : MouseDownAt(event) =>
          LET data == heap.traces[canvas.waveform_data]
              near(timestamp) == Abs(event.x - TimeToX(canvas, timestamp)) < 10
              hits == {k \in 1..Len(data.markers) : near(data.markers[k].timestamp)}
          IN  IF data.cursor.visible /\ near(data.cursor.timestamp)
              THEN canvas'.dragged_object = "cursor"
              ELSE IF hits # {}
              THEN /\ canvas'.dragged_object = "marker"
                   /\ \E k \in hits :
                         /\ \A j \in hits : k <= j
                         /\ canvas'.dragged_marker =
                                Some(heap'.traces[canvas'.waveform_data].markers[k].oid)
              ELSE canvas'.dragged_object = "pan"]_vars

\* the cursor is being dragged from the edge at 2, where a marker is too
C16_Witness ==
    /\ canvas.dragged_object = "cursor"
    /\ heap.traces[canvas.waveform_data].cursor.dragging
    /\ heap.traces[canvas.waveform_data].cursor.timestamp = Q(2)
    /\ \E k \in 1..Len(heap.traces[canvas.waveform_data].markers) :
          heap.traces[canvas.waveform_data].markers[k].timestamp = Q(2)

\* C17: a pointer-down that enters DraggingMarker flips the selected flag of
\* the marker it hit and of no other marker; a pointer-down that goes to the
\* cursor or to panning changes no selected flag.
C17_SelectionToggle ==
    [][\A event \in GestureEvents : MouseDownAt(event) =>
          LET before == heap.traces[canvas.waveform_data].markers
              after == heap'.traces[canvas'.waveform_data].markers
          IN  /\ Len(after) = Len(before)
              /\ \A k \in 1..Len(before) :
                    after[k].selected =
                        IF /\ canvas'.dragged_object = "marker"
                           /\ canvas'.dragged_marker = Some(after[k].oid)
                        THEN ~before[k].selected
                        ELSE before[k].selected]_vars

\* a marker is being dragged after a press that has unselected it, beside a
\* marker that is selected
C17_Witness ==
    /\ canvas.dragged_object = "marker"
    /\ Len(heap.traces[canvas.waveform_data].markers) = 2
    /\ \E k, j \in 1..2 :
          /\ canvas.dragged_marker = Some(heap.traces[canvas.waveform_data].markers[k].oid)
          /\ ~heap.traces[canvas.waveform_data].markers[k].selected
          /\ heap.traces[canvas.waveform_data].markers[k].dragging
          /\ j # k
          /\ heap.traces[canvas.waveform_data].markers[j].selected

\* C18: after a pointer-move in DraggingCursor or DraggingMarker the timestamp
\* of the dragged object is to_time(x) clamped to [0, max_timestamp] and then
\* edge-snapped, or the clamped time itself while the modifier is held, and
\* lies in [0, max_timestamp].
C18_DragTime ==
    [][\A event \in GestureEvents :
          (MouseDragAt(event) /\ canvas.dragged_object \in {"cursor", "marker"}) =>
             /\ canvas.time_scale[1] # 0
             /\ LET data == heap.traces[canvas.waveform_data]
                     after == heap'.traces[canvas'.waveform_data]
                     time == XToTime(canvas, event.x)
                     clamped == IF RatLt(time, Q(0)) THEN Q(0)
                                ELSE IF RatLt(Q(data.max_timestamp), time)
                                THEN Q(data.max_timestamp)
                                ELSE time
                     expected == IF canvas.alt_pressed THEN clamped
                                 ELSE SnapToEdge(canvas, data, clamped)
                     within(t) == RatLe(Q(0), t) /\ RatLe(t, Q(data.max_timestamp))
                 IN  /\ canvas.dragged_object = "cursor" =>
                            /\ after.cursor.timestamp = expected
                            /\ within(after.cursor.timestamp)
                     /\ canvas.dragged_object = "marker" =>
                            \E k \in 1..Len(after.markers) :
                                /\ canvas'.dragged_marker = Some(after.markers[k].oid)
                                /\ after.markers[k].timestamp = expected
                                /\ within(after.markers[k].timestamp)]_vars

\* C19: a pointer-up leaves the controller in Idle, with no dragged object,
\* no dragged marker and no pan anchor, and clears the dragging flag of the
\* cursor and of the marker that was being dragged.
C19_PointerUp ==
    [][MouseUp =>
          LET before == heap.traces[canvas.waveform_data].markers
              after == heap'.traces[canvas'.waveform_data]
          IN  /\ canvas'.dragged_object = None
              /\ canvas'.dragged_marker = Nothing
              /\ canvas'.drag_start_x = Nothing
              /\ canvas'.drag_start_y = Nothing
              /\ ~canvas'.is_dragging
              /\ ~after.cursor.dragging
              /\ Len(after.markers) = Len(before)
              /\ \A k \in 1..Len(before) :
                    canvas.dragged_marker = Some(before[k].oid) => ~after.markers[k].dragging]_vars

\* the controller is back in Idle after a marker was pressed
C19_Witness ==
    /\ canvas.dragged_object = None
    /\ canvas.dragged_marker = Nothing
    /\ \E k \in 1..Len(heap.traces[canvas.waveform_data].markers) :
          /\ heap.traces[canvas.waveform_data].markers[k].selected
          /\ ~heap.traces[canvas.waveform_data].markers[k].dragging

\* C20: a double-click adds exactly one Marker to the trace, at the pointer
\* time clamped to [0, max_timestamp] and edge-snapped, labelled "M<n>" with
\* n the number of markers before the insertion plus one, unselected and not
\* dragging, and the list stays sorted.
C20_DoubleClick ==
    [][\A event \in GestureEvents : DoubleClickAt(event) =>
          /\ canvas.time_scale[1] # 0
          /\ LET data == heap.traces[canvas.waveform_data]
                  before == data.markers
                  after == heap'.traces[canvas'.waveform_data].markers
                  time == XToTime(canvas, event.x)
                  clamped == IF RatLt(time, Q(0)) THEN Q(0)
                             ELSE IF RatLt(Q(data.max_timestamp), time)
                             THEN Q(data.max_timestamp)
                             ELSE time
                  fields(m) == <<m.timestamp, m.label, m.color, m.selected, m.dragging>>
              IN  /\ Len(after) = Len(before) + 1
                  /\ \E k \in 1..Len(after) :
                        /\ after[k].timestamp = SnapToEdge(canvas, data, clamped)
                        /\ after[k].label = "M" \o Decimal(Len(before) + 1)
                        /\ ~after[k].selected
                        /\ ~after[k].dragging
                        /\ \A j \in 1..Len(before) :
                              fields(before[j]) = fields(after[IF j < k THEN j ELSE j + 1])
                  /\ \A j \in 1..(Len(after) - 1) :
                        RatLe(after[j].timestamp, after[j + 1].timestamp)]_vars

(***************************************************************************)
(* The claims about errors and about the reading of the body.              *)
(***************************************************************************)
\* C21: a load that fails because the file is missing or may not be read
\* leaves the trace loaded before in place and unchanged: the trace of the
\* viewer and of the canvas, its signals, markers, cursor and max_timestamp,
\* and the scale are what they were.
C21_FailedLoad ==
    [][\A name \in FileNames \ DOMAIN Files : OpenFile(name) =>
          /\ viewer' = viewer
          /\ canvas' = canvas
          /\ heap' = heap]_vars

\* a missing file was asked for while a trace with a marker and a dragged
\* cursor is loaded at the scale of the fit
C21_Witness ==
    /\ call = [fn |-> "load_vcd_file", filename |-> "missing.vcd"]
    /\ viewer.file_loaded
    /\ Len(heap.traces[viewer.waveform_data].markers) > 0
    /\ heap.traces[viewer.waveform_data].max_timestamp = 5
    /\ heap.traces[viewer.waveform_data].cursor.timestamp # Q(0)
    /\ canvas.time_scale = Q(140)

\* C22: a scalar, vector or real value-change line whose identifier was not
\* declared is dropped: the line raises nothing, changes no signal, adds no
\* signal and leaves current_timestamp and max_timestamp as they were.
C22_UnknownIdentifier ==
    [][(/\ ParseLineStep
        /\ LET line == frame'.line
               parts == Split(line)
               unknown(identifier) == GetSignalByIdentifier(parser.data, identifier) = 0
           IN  /\ Len(line) > 1
               /\ IF CharAt(line, 1) \in Chars("01xzXZ")
                  THEN unknown(DropFirst(line, 1))
                  ELSE /\ CharAt(line, 1) \in Chars("bBrR")
                       /\ Len(parts) >= 2
                       /\ unknown(parts[2]))
       => /\ exc' = "none"
          /\ parser'.data = parser.data
          /\ parser'.current_timestamp = parser.current_timestamp]_vars

\* in the body, at time 5, with a signal declared and changed, a vector
\* value change of an identifier that is not declared has been read
C22_Witness ==
    /\ pc = "parsing"
    /\ frame.line = "b10 ?"
    /\ ~frame.in_header
    /\ parser.current_timestamp = 5
    /\ Len(parser.data.signals) = 1
    /\ Len(parser.data.signals[1].changes) > 0

\* C23: pointer-down, pointer-move, pointer-up and double-click complete
\* without raising an error, at every pointer x, with and without the
\* modifier, at every reachable scale and trace.
C23_NeverFails ==
    [][(Press \/ Move \/ MouseUp \/ DoublePress) => exc' = "none"]_vars

\* C24: signals are created during the header only and changes are appended
\* during the body only: a line read after $enddefinitions adds no Signal, no
\* signal has a change while the parser is in the header, and a line removes
\* no Signal: each signal stays, with the changes it had.
C24_HeaderAndBody ==
    [][ParseLineStep =>
          LET before == parser.data.signals
              after == parser'.data.signals
          IN  /\ ~frame.in_header => Len(after) = Len(before)
              /\ frame'.in_header => \A k \in 1..Len(after) : after[k].changes = <<>>
              /\ \A k \in 1..Len(before) :
                    \E j \in 1..Len(after) :
                        /\ after[j].identifier = before[k].identifier
                        /\ after[j].name = before[k].name
                        /\ after[j].scope = before[k].scope
                        /\ after[j].width = before[k].width
                        /\ Len(after[j].changes) >= Len(before[k].changes)
                        /\ SubSeq(after[j].changes, 1, Len(before[k].changes))
                              = before[k].changes]_vars

\* C25: in the body every line that begins with one of 0 1 x X z Z followed
\* by a declared identifier appends one change (current_timestamp, that
\* character) to the signal of the identifier and to no other signal,
\* wherever the line stands, the lines between a directive such as $dumpvars
\* and its $end included.  passed holds the lines the iteration passes.
C25_ScalarChange ==
    [][\A u \in Ahead(frame, <<Vocabulary, Continuation>>) :
          (pc = "parsing" /\ ~frame.in_header /\ Len(u.lines) > 0 /\ Iterate(u)) =>
             LET before == parser.data.signals
                 after == parser'.data.signals
                 passed == SubSeq(u.lines, 1, frame'.i - frame.i)
                 scalar(text, identifier) ==
                     /\ Len(Strip(text)) > 1
                     /\ CharAt(Strip(text), 1) \in Chars("01xzXZ")
                     /\ DropFirst(Strip(text), 1) = identifier
                 record(text) == <<parser.current_timestamp, CharAt(Strip(text), 1)>>
                 appended(identifier) ==
                     LET at == SortedSet({j \in 1..Len(passed) : scalar(passed[j], identifier)})
                     IN  [n \in 1..Len(at) |-> record(passed[at[n]])]
             IN  (\E k \in 1..Len(before) :
                     \E j \in 1..Len(passed) : scalar(passed[j], before[k].identifier))
                 => /\ Len(after) = Len(before)
                    /\ \A k \in 1..Len(before) :
                          after[k].changes =
                              before[k].changes \o appended(before[k].identifier)]_vars

\* C26: a '#' line whose remainder is not an integer is passed over: it
\* leaves current_timestamp and max_timestamp as they were and raises
\* nothing, and the changes recorded by a line are recorded at the
\* current_timestamp the line found.
C26_BadTimestamp ==
    [][ParseLineStep =>
          LET before == parser.data.signals
              after == parser'.data.signals
          IN  /\ (StartsWith(frame'.line, "#") /\ ~PyInt(DropFirst(frame'.line, 1)).ok)
                    => (exc' = "none" /\ parser' = parser)
              /\ \A k \in 1..Len(after) : \A n \in 1..Len(after[k].changes) :
                    (k > Len(before) \/ n > Len(before[k].changes))
                        => after[k].changes[n][1] = parser.current_timestamp]_vars

\* the line #x has been read in the body at time 5, after a change at 5
C26_Witness ==
    /\ pc = "parsing"
    /\ frame.line = "#x"
    /\ ~frame.in_header
    /\ parser.current_timestamp = 5
    /\ parser.data.max_timestamp = 5
    /\ \E k \in 1..Len(parser.data.signals) :
          parser.data.signals[k].changes = <<<<5, "1">>>>

\* C27: every change record stored by a parse, for any text, has an integer
\* timestamp >= 0.
C27_TimestampNatural ==
    \A k \in 1..Len(parser.data.signals) :
        \A n \in 1..Len(parser.data.signals[k].changes) :
            /\ parser.data.signals[k].changes[n][1] \in Int
            /\ parser.data.signals[k].changes[n][1] >= 0

(***************************************************************************)
(* The claims about the functions of the model and of the view.            *)
(***************************************************************************)
\* C28: Signal.add_change appends at the end and neither reorders nor removes
\* the records before: changes is the list of the records appended, in the
\* order of the calls, so when the calls come in non-decreasing timestamp
\* order changes is non-decreasing by timestamp, records of one timestamp in
\* insertion order.
C28_AppendOnly ==
    LET changes == heap.traces[1].signals[1].changes
        ascending(records) ==
            \A n \in 1..(Len(records) - 1) : records[n][1] <= records[n + 1][1]
    IN  /\ changes = ref.appended
        /\ ascending(ref.appended) => ascending(changes)

\* three records appended in timestamp order, two of them at one timestamp
C28_Witness ==
    /\ call.fn = "add_change"
    /\ heap.traces[1].signals[1].changes = <<<<1, "1">>, <<1, "0">>, <<3, "1">>>>

\* C29: to_pixel(t) is margin + round(t * scale), the integer pixel nearest
\* to t * scale (at most half a pixel away), for t >= 0 and scale > 0, and
\* to_time(x) is (x - margin) / scale.
C29_PixelRounded ==
    /\ call.fn = "_time_to_x" =>
          RatLe(RatAbs(RatSub(Q(call.result - canvas.left_margin),
                              RatMul(call.time, canvas.time_scale))),
                Rat(1, 2))
    /\ call.fn = "_x_to_time" =>
          call.result = RatDiv(Q(call.x - canvas.left_margin), canvas.time_scale)

\* C30: with two or more selected markers the delta of the pair is
\* |markers[1].timestamp - markers[0].timestamp|, markers[0] and markers[1]
\* being the first two selected markers in the order of the marker list,
\* whatever the order they were selected in; with fewer than two selected
\* markers no delta of a pair is shown.
C30_PairDelta ==
    call.fn = "update_delta_display" =>
        LET markers == heap.traces[viewer.waveform_data].markers
            chosen == {k \in 1..Len(markers) : markers[k].selected}
            first == CHOOSE k \in chosen : \A j \in chosen : k <= j
            second == CHOOSE k \in chosen \ {first} : \A j \in chosen \ {first} : k <= j
        IN  IF Cardinality(chosen) >= 2
            THEN call.delta = Some(RatAbs(RatSub(markers[second].timestamp,
                                                 markers[first].timestamp)))
            ELSE call.delta = Nothing

\* the three markers are selected, the one that was at 5 first in the list
\* after a drag to 0, and the delta is that of the first two of the list
C30_Witness ==
    /\ call.fn = "update_delta_display"
    /\ call.delta = Some(Q(3))
    /\ LET markers == heap.traces[viewer.waveform_data].markers IN
       /\ Len(markers) = 3
       /\ \A k \in 1..3 : markers[k].selected
       /\ markers[1].label = "M3"
       /\ markers[2].label = "M2"
       /\ markers[3].timestamp = Q(5)

(***************************************************************************)
(* The claims about loads, the zoom and the drag state.                    *)
(***************************************************************************)
\* C31: after every successful load the trace in use has a fresh cursor
\* (timestamp 0, visible, not dragging) and no markers, whatever the cursor
\* and the markers were before the load.
C31_FreshTrace ==
    [][\A name \in FileNames :
          (OpenFile(name) /\ ParseFileOf(name).exc = "none") =>
             /\ viewer'.waveform_data = canvas'.waveform_data
             /\ heap'.traces[viewer'.waveform_data].cursor =
                    [timestamp |-> Q(0), visible |-> TRUE, dragging |-> FALSE]
             /\ heap'.traces[viewer'.waveform_data].markers = <<>>]_vars

\* waves.vcd was loaded while a marker of the trace before was being
\* dragged: the canvas still holds that marker, the trace holds none
C31_Witness ==
    /\ call = [fn |-> "load_vcd_file", filename |-> "waves.vcd"]
    /\ viewer.file_loaded
    /\ canvas.dragged_object = "marker"
    /\ Len(heap.detached) = 1
    /\ heap.traces[viewer.waveform_data].markers = <<>>
    /\ heap.traces[viewer.waveform_data].cursor.timestamp = Q(0)

\* C32: zoom-out never increases the scale: for every reachable scale and
\* max_timestamp > 0 the scale after zoom_out is at most the scale before.
C32_ZoomOutShrinks ==
    (call.fn = "zoom_out" /\ heap.traces[viewer.waveform_data].max_timestamp > 0)
        => RatLe(canvas.time_scale, call.time_scale)

\* C33: while the controller is in DraggingMarker the dragged marker is in
\* the marker list of the trace of the canvas, under any interleaving of the
\* pointer events with clear-markers, delete-selected-markers and loads, and
\* no pointer-move writes to a marker that is in no list.
C33_DraggedMarkerListed ==
    /\ [](canvas.dragged_object = "marker" =>
            /\ canvas.dragged_marker # Nothing
            /\ \E k \in 1..Len(heap.traces[canvas.waveform_data].markers) :
                  heap.traces[canvas.waveform_data].markers[k].oid = canvas.dragged_marker[1])
    /\ [][\A event \in PointerEvents :
             MouseDragAt(event) => heap'.detached = heap.detached]_vars

\* C34: whenever the controller is in Idle neither the cursor nor a marker of
\* the trace has its dragging flag set, for any sequence of pointer-down,
\* pointer-move, pointer-up and double-click, a pointer-down with no
\* pointer-up before it included.
C34_IdleNotDragging ==
    canvas.dragged_object = None =>
        /\ ~heap.traces[canvas.waveform_data].cursor.dragging
        /\ \A k \in 1..Len(heap.traces[canvas.waveform_data].markers) :
              ~heap.traces[canvas.waveform_data].markers[k].dragging

\* C35: the fields of the drag state agree in every reachable state:
\* dragged_object is one of none, cursor, marker, pan; dragged_marker is held
\* exactly when dragged_object is marker; is_dragging and the pan anchor
\* (drag_start_x, drag_start_y) are set exactly when dragged_object is pan.
C35_DragStateConsistent ==
    /\ canvas.dragged_object \in {None, "cursor", "marker", "pan"}
    /\ canvas.dragged_marker # Nothing <=> canvas.dragged_object = "marker"
    /\ canvas.is_dragging <=> canvas.dragged_object = "pan"
    /\ canvas.drag_start_x # Nothing <=> canvas.dragged_object = "pan"
    /\ canvas.drag_start_y # Nothing <=> canvas.dragged_object = "pan"


\* C36: for every display_order the program can set (none, or the full names
\* of all signals as _populate_signal_list lists them, in any order of the
\* rows), get_signals_in_display_order returns every live signal exactly
\* once: the result is a permutation of get_all_signals().
C36_DisplayOrderPermutation ==
    call.fn = "get_signals_in_display_order" =>
        LET data == heap.traces[1]
            order == data.display_order
            rows == PopulateSignalList(data)
            all == GetAllSignals(data)
            result == call.result
            settable ==
                \/ order = <<>>
                \/ /\ Len(order) = Len(rows)
                   /\ \A name \in OrderNames :
                         Cardinality({i \in 1..Len(order) : order[i] = name}) =
                         Cardinality({i \in 1..Len(rows) : rows[i] = name})
        IN  settable =>
                /\ Len(result) = Len(all)
                /\ \A k \in 1..Len(all) :
                      Cardinality({i \in 1..Len(result) : result[i] = all[k]}) = 1


\* C37: after any sequence of successful and failed loads the viewer and the
\* canvas refer to the same Trace object, which is an object of the heap.
C37_SameTrace ==
    /\ viewer.waveform_data = canvas.waveform_data
    /\ viewer.waveform_data \in 1..Len(heap.traces)

\* a failed load after a successful one: the marker placed on the loaded trace
\* is still the marker of the trace of both
C37_Witness ==
    /\ call = [fn |-> "load_vcd_file", filename |-> "missing.vcd"]
    /\ viewer.file_loaded
    /\ viewer.waveform_data = canvas.waveform_data
    /\ Len(heap.traces[canvas.waveform_data].markers) = 1


(***************************************************************************)
(* parse_file on a parser that has parsed before.  The one VCDParser of    *)
(* the viewer is used for every load; what it holds between two calls is   *)
(* data, current_scope and current_timestamp, as the former call left them *)
(* on its return or on the exception that ended it.                        *)
(***************************************************************************)
MaxTextLines == 3   \* lines of a file parsed by a reused parser

TextVocabulary ==
    {"$scope module top $end", "$var wire 1 ! clk $end", "$var wire x ! clk $end", "#5"}

Texts == UNION {[1..n -> TextVocabulary] : n \in 0..MaxTextLines}

\* a reset that leaves the scope stack and the timestamp of the former parse
ResetDataOnly(p) == [Parser EXCEPT !.current_scope = p.current_scope,
                                  !.current_timestamp = p.current_timestamp]

\* the first three statements of parse_file on the parser p
Reset(p) == Parser

\* parser.parse_file(filename) on the file of the lines of text, from the
\* reset to the return or the exception; call records the text and how the
\* former call had left the parser
ParseFileCall ==
    /\ \E text \in Texts :
          \E r \in {ParseLines(Reset(parser), Frame(text, TRUE))} :
              /\ parser' = r.parser
              /\ exc' = r.exc
              /\ pc' = IF r.exc = "none" THEN "returned" ELSE "raised"
              /\ call' = [fn |-> "parse_file", text |-> text,
                          before |-> [current_scope |-> parser.current_scope,
                                      current_timestamp |-> parser.current_timestamp,
                                      exc |-> exc]]
    /\ UNCHANGED <<frame, ref>>
    /\ UNCHANGED view

SpecReparse == InitParse /\ [][ParseFileCall]_vars

\* C38: what parse_file makes of a file on a reused parser (the trace it
\* returns, the state it leaves the parser in, the exception it raises) is
\* what a parser just constructed makes of the text of the file, even after a
\* parse that ended with unbalanced scopes or raised.
C38_HistoryFree ==
    call.fn = "parse_file" =>
        LET fresh == ParseLines(Parser, Frame(call.text, TRUE)) IN
        /\ parser = fresh.parser
        /\ exc = fresh.exc

\* a file with a $var outside every scope and no timestamp, parsed after a
\* parse that raised inside an open scope at time 5
C38_Witness ==
    /\ call.fn = "parse_file"
    /\ call.text = <<"$var wire 1 ! clk $end">>
    /\ call.before.exc = "ValueError"
    /\ call.before.current_scope = <<"top">>
    /\ call.before.current_timestamp = 5
    /\ Len(parser.data.signals) = 1
    /\ parser.data.signals[1].scope = ""
    /\ parser.current_scope = <<>>
    /\ parser.current_timestamp = 0
    /\ parser.data.max_timestamp = 0


\* the loop of _parse_lines goes on while a line is left: the interpreter runs
\* the next iteration, or leaves the loop at the end of the lines
SpecParseFair ==
    InitParse /\ [][NextParse]_vars /\ WF_vars(ParseLineStep) /\ WF_vars(ParseReturn)

\* C39: every iteration of the loop of _parse_lines that does not raise
\* advances the line index by at least one line, directives without a closing
\* $end included, the index never passes the end of the file, and every parse
\* that has begun ends, by a return or by an exception.
C39_Terminates ==
    /\ [][(pc = "parsing" /\ pc' = "parsing") => frame'.i > frame.i]_vars
    /\ [](frame.i <= MaxLines)
    /\ (pc = "parsing") ~> (pc # "parsing")

\* a parse that returned after a $dumpvars with no $end, which took the
\* loop to the last line of a file of MaxLines lines
C39_Witness ==
    /\ pc = "returned"
    /\ frame.line = "$dumpvars"
    /\ frame.i = MaxLines
    /\ frame.lines = <<>>


\* self._snap_to_edge(time) on the result of the call before
SnapToEdgeAgain ==
    /\ call.fn = "_snap_to_edge"
    /\ call' = [fn |-> "_snap_to_edge again", time |-> call.result, first |-> call.time,
                result |-> SnapToEdge(canvas, Trace(canvas, heap), call.result)]
    /\ UNCHANGED <<parser, frame, pc, exc, ref, viewer, canvas, heap, tk>>

NextSnapTwice ==
    \/ SnapToEdgeCall
    \/ SnapToEdgeAgain

SpecSnapTwice == InitSnap /\ [][NextSnapTwice]_vars

\* C40: for every time, every scale > 0 and every set of edges, snapping the
\* result of _snap_to_edge gives that result again, and the result of
\* _snap_to_edge is its input or a member of get_all_edges().
C40_SnapIdempotent ==
    LET edges == GetAllEdges(Trace(canvas, heap)) IN
    /\ (call.fn = "_snap_to_edge" /\ RatLt(Q(0), canvas.time_scale)) =>
           \/ call.result = call.time
           \/ \E k \in 1..Len(edges) : call.result = Q(edges[k])
    /\ (call.fn = "_snap_to_edge again" /\ RatLt(Q(0), canvas.time_scale)) =>
           call.result = call.time

\* 21/2 snapped to the edge at 10 at 1 pixel per unit, and snapped again
C40_Witness ==
    /\ call.fn = "_snap_to_edge again"
    /\ canvas.time_scale = Q(1)
    /\ call.first = Rat(21, 2)
    /\ call.time = Q(10)
    /\ call.result = Q(10)
    /\ GetAllEdges(Trace(canvas, heap)) = <<10, 50, 100>>

=============================================================================
